---------------------------- MODULE Spec2Model ----------------------------
(***************************************************************************)
(* Model of the top-down concrete stock estimation scripts                 *)
(*   src/top-down/concrete-top-down.py      (stock-flow cohort model)      *)
(*   src/top-down/concrete_stock_spatial.py (spatial allocation)           *)
(*                                                                         *)
(* Floating point numbers are modelled as exact rationals [n, d] with      *)
(* d > 0 and gcd(n, d) = 1, extended with the IEEE special values          *)
(* NaN = [0, 0], +inf = [1, 0] and -inf = [-1, 0].                         *)
(***************************************************************************)
EXTENDS Integers, Sequences, FiniteSets, TLC

(***************************************************************************)
(* Bounds of the model.                                                    *)
(***************************************************************************)
MaxRows == 2        \* rows of a loaded table (cement_data, spending_data)
MaxProd == 2        \* production_mt of the first row is in 1..MaxProd
MaxPast == 1        \* data years reach back to PRINT_YEAR - MaxPast
MaxFuture == 1      \* data years reach up to CURRENT_YEAR + MaxFuture
MaxAge == 150       \* ages probed on survival_function are in -MaxGap..MaxAge
MaxGap == 3         \* two probed ages differ by 1..MaxGap
NUnits == 2         \* number of spatial units (regions)
MaxProxy == 2       \* a proxy value of a region is in 0..MaxProxy
MaxStock == 2       \* a national stock is in 0..MaxStock
MaxRetries == 3     \* census_geocode is called with retries in 0..MaxRetries
MaxPdfs == 2        \* PDF files named on the command line of pdf_scraper.py
MaxLines == 7       \* rows of a raw permit CSV
MaxFiles == 2       \* CSV files in the directory clean_all_csv_in_directory lists
MaxRecords == 2     \* rows of each of the two mine datasets

(***************************************************************************)
(* Numbers: exact rationals with NaN and the infinities.                   *)
(***************************************************************************)
Abs(x) == IF x < 0 THEN -x ELSE x

Sign(x) == IF x < 0 THEN -1 ELSE IF x = 0 THEN 0 ELSE 1

RECURSIVE Gcd(_, _)
Gcd(a, b) == IF b = 0 THEN a ELSE Gcd(b, a % b)

\* the rational n/d in lowest terms (d # 0)
Rat(n, d) ==
    LET g == Gcd(Abs(n), Abs(d))
        s == Sign(d)
    IN  [n |-> s * (n \div g), d |-> s * (d \div g)]

R(i) == [n |-> i, d |-> 1]
NaN == [n |-> 0, d |-> 0]
Inf(s) == [n |-> s, d |-> 0]
IsNaN(x) == x.d = 0 /\ x.n = 0
IsInf(x) == x.d = 0 /\ x.n # 0

RAdd(x, y) ==
    IF IsNaN(x) \/ IsNaN(y) THEN NaN
    ELSE IF IsInf(x) /\ IsInf(y) THEN (IF x.n = y.n THEN x ELSE NaN)
    ELSE IF IsInf(x) THEN x
    ELSE IF IsInf(y) THEN y
    ELSE LET g == Gcd(x.d, y.d)
             l == (x.d \div g) * y.d
         IN  Rat(x.n * (l \div x.d) + y.n * (l \div y.d), l)

RNeg(x) == [n |-> -x.n, d |-> x.d]

RSub(x, y) == RAdd(x, RNeg(y))

RMul(x, y) ==
    IF IsNaN(x) \/ IsNaN(y) THEN NaN
    ELSE IF IsInf(x) \/ IsInf(y)
         THEN (IF x.n = 0 \/ y.n = 0 THEN NaN ELSE Inf(Sign(x.n) * Sign(y.n)))
    ELSE LET g1 == Gcd(Abs(x.n), y.d)
             g2 == Gcd(Abs(y.n), x.d)
         IN  Rat((x.n \div g1) * (y.n \div g2), (x.d \div g2) * (y.d \div g1))

\* IEEE division: x/0 is an infinity, 0/0 is NaN (numpy/pandas semantics)
RDiv(x, y) ==
    IF IsNaN(x) \/ IsNaN(y) THEN NaN
    ELSE IF IsInf(y) THEN (IF IsInf(x) THEN NaN ELSE R(0))
    ELSE IF IsInf(x) THEN Inf(x.n * (IF y.n < 0 THEN -1 ELSE 1))
    ELSE IF y.n = 0 THEN (IF x.n = 0 THEN NaN ELSE Inf(Sign(x.n)))
    ELSE RMul(x, Rat(y.d, y.n))

\* x < y; every comparison with NaN is false
RLt(x, y) ==
    IF IsNaN(x) \/ IsNaN(y) THEN FALSE
    ELSE IF IsInf(x) THEN x.n < 0 /\ y # x
    ELSE IF IsInf(y) THEN y.n > 0
    ELSE x.n * y.d < y.n * x.d

RLe(x, y) == ~IsNaN(x) /\ ~IsNaN(y) /\ (x = y \/ RLt(x, y))

RAbs(x) == [n |-> Abs(x.n), d |-> x.d]

\* Python's max(a, b): b only if b > a
PyMax(a, b) == IF RLt(a, b) THEN b ELSE a

RECURSIVE SeqSum(_)
SeqSum(s) == IF s = <<>> THEN R(0) ELSE RAdd(SeqSum(SubSeq(s, 1, Len(s) - 1)), s[Len(s)])


\* pandas Series.sum(): NaN entries are skipped (skipna=True)
RECURSIVE PdSum(_)
PdSum(s) ==
    IF s = <<>> THEN R(0)
    ELSE LET x == s[Len(s)]
         IN  RAdd(PdSum(SubSeq(s, 1, Len(s) - 1)), IF IsNaN(x) THEN R(0) ELSE x)

RECURSIVE SortedSeq(_)
SortedSeq(S) ==
    IF S = {} THEN <<>>
    ELSE LET m == CHOOSE x \in S : \A y \in S : x <= y
         IN  <<m>> \o SortedSeq(S \ {m})

Range(s) == {s[i] : i \in 1..Len(s)}

(***************************************************************************)
(* concrete-top-down.py: configuration parameters                          *)
(***************************************************************************)
CURRENT_YEAR == 2024

\* the year calculate_survival_matrix prints an example for
PRINT_YEAR == 1970

BuildingTypes == <<"residential", "commercial", "institutional", "industrial">>

LIFETIMES ==
    [residential   |-> [mean |-> 70, std |-> 20],
     commercial    |-> [mean |-> 60, std |-> 15],
     institutional |-> [mean |-> 75, std |-> 20],
     industrial    |-> [mean |-> 50, std |-> 15]]

BUILDING_FRACTION == Rat(55, 100)

CONCRETE_TO_CEMENT_RATIO == Rat(55, 10)

\* f'{btype}_concrete_mt'
InflowCol(btype) ==
    CASE btype = "residential"   -> "residential_concrete_mt"
      [] btype = "commercial"    -> "commercial_concrete_mt"
      [] btype = "institutional" -> "institutional_concrete_mt"
      [] btype = "industrial"    -> "industrial_concrete_mt"

\* f'{btype}_fraction'
FractionCol(btype) ==
    CASE btype = "residential"   -> "residential_fraction"
      [] btype = "commercial"    -> "commercial_fraction"
      [] btype = "institutional" -> "institutional_fraction"
      [] btype = "industrial"    -> "industrial_fraction"

(***************************************************************************)
(* scipy.stats.norm.cdf(x, loc, scale): the standard normal distribution   *)
(* function, tabulated in steps of 0.1 of z = (x - loc) / scale from -4 to *)
(* 4 and scaled by PhiScale; NaN for scale <= 0.                           *)
(***************************************************************************)
PhiScale == 10000

PhiTable ==
    <<0, 0, 1, 1, 2, 2, 3, 5, 7,
      10, 13, 19, 26, 35, 47, 62, 82, 107,
      139, 179, 228, 287, 359, 446, 548, 668, 808,
      968, 1151, 1357, 1587, 1841, 2119, 2420, 2743, 3085,
      3446, 3821, 4207, 4602, 5000, 5398, 5793, 6179, 6554,
      6915, 7257, 7580, 7881, 8159, 8413, 8643, 8849, 9032,
      9192, 9332, 9452, 9554, 9641, 9713, 9772, 9821, 9861,
      9893, 9918, 9938, 9953, 9965, 9974, 9981, 9987, 9990,
      9993, 9995, 9997, 9998, 9998, 9999, 9999, 10000, 10000>>

NormCdf(x, loc, scale) ==
    IF scale <= 0 THEN NaN
    ELSE LET z10 == ((x - loc) * 10) \div scale
         IN  IF z10 < -40 THEN R(0)
             ELSE IF z10 > 40 THEN R(1)
             ELSE Rat(PhiTable[z10 + 41], PhiScale)

(***************************************************************************)
(* survival_function(age, lifetime_params)                                 *)
(***************************************************************************)
survival_function_cdf(age, lifetime_params) ==
    PyMax(R(0), NormCdf(age, lifetime_params.mean, lifetime_params.std))

survival_function(age, lifetime_params) ==
    LET mean_life == lifetime_params.mean
        std_life == lifetime_params.std
        survival_prob == RSub(R(1), NormCdf(age, mean_life, std_life))
    IN  PyMax(R(0), survival_prob)

(***************************************************************************)
(* calculate_survival_matrix(current_year, start_year, lifetimes):         *)
(* [year_built -> [building_type -> probability]]; the example it prints   *)
(* reads the row of PRINT_YEAR and raises KeyError when there is none.     *)
(***************************************************************************)
calculate_survival_matrix(current_year, start_year, lifetimes) ==
    LET years == start_year..current_year
        df == [year_built \in years |->
                [building_type \in DOMAIN lifetimes |->
                    survival_function(current_year - year_built,
                                      lifetimes[building_type])]]
    IN  IF PRINT_YEAR \in years
        THEN [exc |-> "none", ret |-> df]
        ELSE [exc |-> "KeyError", ret |-> <<>>]

(***************************************************************************)
(* calculate_concrete_inflows(cement_data, spending_data)                  *)
(***************************************************************************)
\* the rows of right with the key of the left row l, joined to l
RECURSIVE MergeRow(_, _)
MergeRow(l, right) ==
    IF right = <<>> THEN <<>>
    ELSE (IF Head(right).year = l.year
          THEN <<[k \in DOMAIN l \cup DOMAIN Head(right) |->
                    IF k \in DOMAIN l THEN l[k] ELSE Head(right)[k]]>>
          ELSE <<>>) \o MergeRow(l, Tail(right))

\* left.merge(right, on='year'): inner join, in the order of the left keys
RECURSIVE Merge(_, _)
Merge(left, right) ==
    IF left = <<>> THEN <<>>
    ELSE MergeRow(Head(left), right) \o Merge(Tail(left), right)

\* a row with column col set to v
WithCol(row, col, v) ==
    [k \in DOMAIN row \cup {col} |-> IF k = col THEN v ELSE row[k]]

RECURSIVE AllocateTypes(_, _)
AllocateTypes(row, types) ==
    IF types = <<>> THEN row
    ELSE AllocateTypes(
            WithCol(row, InflowCol(Head(types)),
                    RMul(row.concrete_to_buildings_mt, row[FractionCol(Head(types))])),
            Tail(types))

\* the inflow row with all concrete taken as going to buildings
InflowRowAllToBuildings(m) ==
    LET r1 == WithCol(m, "concrete_available_mt",
                      RMul(R(m.production_mt), CONCRETE_TO_CEMENT_RATIO))
        r2 == WithCol(r1, "concrete_to_buildings_mt", r1.concrete_available_mt)
    IN  AllocateTypes(r2, BuildingTypes)

\* the columns calculate_concrete_inflows adds to a merged row
InflowRow(m) ==
    LET r1 == WithCol(m, "concrete_available_mt",
                      RMul(R(m.production_mt), CONCRETE_TO_CEMENT_RATIO))
        r2 == WithCol(r1, "concrete_to_buildings_mt",
                      RMul(r1.concrete_available_mt, BUILDING_FRACTION))
    IN  AllocateTypes(r2, BuildingTypes)

\* the returned frame, the exception raised (idxmax of an empty column raises
\* ValueError), and the caller's two frames as the call leaves them
calculate_concrete_inflows(cement, spending) ==
    LET merged == Merge(cement, spending)
        df == [i \in 1..Len(merged) |-> InflowRow(merged[i])]
    IN  [cement_data |-> cement,
         spending_data |-> spending,
         exc |-> IF df = <<>> THEN "ValueError" ELSE "none",
         ret |-> IF df = <<>> THEN <<>> ELSE df]

(***************************************************************************)
(* calculate_stock(inflows, survival_matrix, current_year)                 *)
(***************************************************************************)
\* inflows.loc[inflows['year'] == year, col].values[0]
FirstValue(inflows, year, col) ==
    LET i == CHOOSE k \in 1..Len(inflows) :
                /\ inflows[k].year = year
                /\ \A j \in 1..(k - 1) : inflows[j].year # year
    IN  inflows[i][col]

\* the loop over inflows['year'], up to row n, that takes a cohort outside
\* the survival matrix as standing in full
RECURSIVE StockLoopAll(_, _, _, _)
StockLoopAll(inflows, n, survival_matrix, btype) ==
    IF n = 0 THEN R(0)
    ELSE LET year == inflows[n].year
             before == StockLoopAll(inflows, n - 1, survival_matrix, btype)
         IN  RAdd(before,
                  RMul(FirstValue(inflows, year, InflowCol(btype)),
                       IF year \in DOMAIN survival_matrix
                       THEN survival_matrix[year][btype]
                       ELSE R(1)))

\* the loop over inflows['year'], up to row n: a year that is not in the
\* index of the survival matrix is passed over
RECURSIVE StockLoop(_, _, _, _)
StockLoop(inflows, n, survival_matrix, btype) ==
    IF n = 0 THEN R(0)
    ELSE LET year == inflows[n].year
             before == StockLoop(inflows, n - 1, survival_matrix, btype)
         IN  IF year \in DOMAIN survival_matrix
             THEN RAdd(before,
                       RMul(FirstValue(inflows, year, InflowCol(btype)),
                            survival_matrix[year][btype]))
             ELSE before

\* the dictionary stocks, s being the stocks of BuildingTypes in their order
StockDict(s) ==
    [k \in Range(BuildingTypes) \cup {"total"} |->
        IF k = "total" THEN SeqSum(s)
        ELSE s[CHOOSE i \in 1..Len(BuildingTypes) : BuildingTypes[i] = k]]

calculate_stock(inflows, survival_matrix, current_year) ==
    CHOOSE r \in {StockDict(s) :
                    s \in {<<StockLoop(inflows, Len(inflows), survival_matrix, "residential"),
                             StockLoop(inflows, Len(inflows), survival_matrix, "commercial"),
                             StockLoop(inflows, Len(inflows), survival_matrix, "institutional"),
                             StockLoop(inflows, Len(inflows), survival_matrix, "industrial")>>}}
        : TRUE

(***************************************************************************)
(* calculate_stock_timeseries(inflows, survival_matrix, start_year,        *)
(* end_year)                                                               *)
(***************************************************************************)
\* the loop over inflows['year'] without the test built_year <= year
RECURSIVE SeriesLoopAll(_, _, _, _)
SeriesLoopAll(inflows, n, year, btype) ==
    IF n = 0 THEN R(0)
    ELSE LET built_year == inflows[n].year
             before == SeriesLoopAll(inflows, n - 1, year, btype)
         IN  RAdd(before,
                  RMul(FirstValue(inflows, built_year, InflowCol(btype)),
                       survival_function(year - built_year, LIFETIMES[btype])))

\* the loop over inflows['year'], up to row n, for the stock of one year
RECURSIVE SeriesLoop(_, _, _, _)
SeriesLoop(inflows, n, year, btype) ==
    IF n = 0 THEN R(0)
    ELSE LET built_year == inflows[n].year
             before == SeriesLoop(inflows, n - 1, year, btype)
         IN  IF built_year <= year
             THEN RAdd(before,
                       RMul(FirstValue(inflows, built_year, InflowCol(btype)),
                            survival_function(year - built_year, LIFETIMES[btype])))
             ELSE before

\* the row of one year, s being the stocks of BuildingTypes in their order
YearRow(year, s) ==
    [year |-> year, residential |-> s[1], commercial |-> s[2],
     institutional |-> s[3], industrial |-> s[4], total |-> SeqSum(s)]

YearStocks(inflows, year) ==
    CHOOSE r \in {YearRow(year, s) :
                    s \in {<<SeriesLoop(inflows, Len(inflows), year, "residential"),
                             SeriesLoop(inflows, Len(inflows), year, "commercial"),
                             SeriesLoop(inflows, Len(inflows), year, "institutional"),
                             SeriesLoop(inflows, Len(inflows), year, "industrial")>>}}
        : TRUE

calculate_stock_timeseries(inflows, survival_matrix, start_year, end_year) ==
    [i \in 1..(end_year - start_year + 1) |-> YearStocks(inflows, start_year + i - 1)]

(***************************************************************************)
(* concrete_stock_spatial.py: class SpatialAllocator.  A pd.Series over    *)
(* the spatial units is a function on Units.  Every method returns the     *)
(* object as the call leaves it (self) with the result (ret) or the        *)
(* exception raised (exc).                                                 *)
(*                                                                         *)
(* CHOOSE r \in {F(x) : x \in {e}} : TRUE is F(e) with e evaluated once.    *)
(***************************************************************************)
Units == 1..NUnits

\* series.sum()
SeriesSum(series) == PdSum([u \in Units |-> series[u]])

\* series / series.sum()
AllocationFactor(series) == [u \in Units |-> RDiv(series[u], SeriesSum(series))]

\* scalar * series
Scale(x, series) == [u \in Units |-> RMul(x, series[u])]

\* SpatialAllocator(national_stock, spatial_units)
SpatialAllocator(national_stock, spatial_units) ==
    [national_stock |-> national_stock,
     spatial_units |-> spatial_units,
     n_units |-> Len(spatial_units)]

\* allocation by a proxy that forgets to normalise by the proxy's sum
ProportionalUnnormalised(self, proxy) ==
    [self |-> self, exc |-> "none", ret |-> Scale(self.national_stock, proxy)]

\* self.national_stock * (proxy / proxy.sum())
Proportional(self, proxy) ==
    [self |-> self, exc |-> "none",
     ret |-> Scale(self.national_stock, AllocationFactor(proxy))]

allocate_by_population(self, population) == Proportional(self, population)

allocate_by_gdp(self, gdp) == Proportional(self, gdp)

allocate_by_floor_area(self, floor_area) == Proportional(self, floor_area)

\* spending_ts: a sequence of rows (years), each a series over the units
allocate_by_construction_spending(self, spending_ts) ==
    LET cumulative_spending ==
            [u \in Units |-> PdSum([t \in 1..Len(spending_ts) |-> spending_ts[t][u]])]
    IN  Proportional(self, cumulative_spending)

allocate_by_nighttime_lights(self, ntl) == Proportional(self, ntl)

\* the keys of a dictionary, in the order they were inserted (the order of
\* the list order)
KeysOf(dict, order) == SelectSeq(order, LAMBDA k : k \in DOMAIN dict)

\* the names a proxy series can be passed under
ProxyNames == <<"population", "gdp", "floor_area", "urban">>

\* the keys of a dictionary of stocks or intensities by building type
StockKeys ==
    <<"residential", "commercial", "institutional", "industrial", "total",
      "infrastructure">>

\* sum(weights.values()), in the order of the names
WeightSum(weights, names) ==
    SeqSum([i \in 1..Len(names) |-> weights[names[i]]])

\* the loop of allocate_hybrid with the weight left out of the product
RECURSIVE HybridLoopUnweighted(_, _, _, _, _)
HybridLoopUnweighted(self, weights, proxy_data, names, u) ==
    IF names = <<>> THEN R(0)
    ELSE IF names[Len(names)] \in DOMAIN proxy_data
    THEN RAdd(HybridLoopUnweighted(self, weights, proxy_data,
                                   SubSeq(names, 1, Len(names) - 1), u),
              RMul(self.national_stock,
                   AllocationFactor(proxy_data[names[Len(names)]])[u]))
    ELSE HybridLoopUnweighted(self, weights, proxy_data,
                              SubSeq(names, 1, Len(names) - 1), u)

\* the loop of allocate_hybrid over weights.items(), names being the keys:
\* the entry of result for unit u
RECURSIVE HybridLoop(_, _, _, _, _)
HybridLoop(self, weights, proxy_data, names, u) ==
    IF names = <<>> THEN R(0)
    ELSE IF names[Len(names)] \in DOMAIN proxy_data
    THEN RAdd(HybridLoop(self, weights, proxy_data, SubSeq(names, 1, Len(names) - 1), u),
              RMul(RMul(weights[names[Len(names)]], self.national_stock),
                   AllocationFactor(proxy_data[names[Len(names)]])[u]))
    ELSE HybridLoop(self, weights, proxy_data, SubSeq(names, 1, Len(names) - 1), u)

\* allocate_hybrid without the assertion on the weights
allocate_hybrid_unchecked(self, weights, proxy_data) ==
    IF DOMAIN proxy_data = {}
    THEN [self |-> self, exc |-> "IndexError", ret |-> <<>>]
    ELSE [self |-> self, exc |-> "none",
          ret |-> [u \in Units |->
                    HybridLoop(self, weights, proxy_data, KeysOf(weights, ProxyNames), u)]]

\* weights and proxy_data are functions from proxy names to weights and series
allocate_hybrid(self, weights, proxy_data) ==
    IF ~RLt(RAbs(RSub(WeightSum(weights, KeysOf(weights, ProxyNames)), R(1))),
            Rat(1, 1000))
    THEN [self |-> self, exc |-> "AssertionError: Weights must sum to 1.0", ret |-> <<>>]
    ELSE IF DOMAIN proxy_data = {}
    THEN [self |-> self, exc |-> "IndexError", ret |-> <<>>]
    ELSE [self |-> self, exc |-> "none",
          ret |-> [u \in Units |->
                    HybridLoop(self, weights, proxy_data, KeysOf(weights, ProxyNames), u)]]

\* building_type_fractions: [building type -> series]; type_intensities:
\* [building type -> intensity]
RECURSIVE IntensityLoop(_, _, _, _)
IntensityLoop(building_type_fractions, type_intensities, names, u) ==
    IF names = <<>> THEN R(0)
    ELSE IF names[Len(names)] \in DOMAIN building_type_fractions
    THEN RAdd(IntensityLoop(building_type_fractions, type_intensities,
                            SubSeq(names, 1, Len(names) - 1), u),
              RMul(building_type_fractions[names[Len(names)]][u],
                   type_intensities[names[Len(names)]]))
    ELSE IntensityLoop(building_type_fractions, type_intensities,
                       SubSeq(names, 1, Len(names) - 1), u)

allocate_with_building_types(self, building_type_fractions, type_intensities) ==
    Proportional(self,
                 [u \in Units |->
                    IntensityLoop(building_type_fractions, type_intensities,
                                  KeysOf(type_intensities, StockKeys), u)])

(***************************************************************************)
(* concrete_stock_spatial.py: calculate_regional_characteristics and       *)
(* allocate_national_stock.  A DataFrame over the regions is a function    *)
(* from Units to rows; a row is a function from column names to values.    *)
(***************************************************************************)
Column(frame, name) == [u \in Units |-> frame[u][name]]

\* current_year of calculate_regional_characteristics
RegionalCurrentYear == 2024

\* df with the four columns calculate_regional_characteristics assigns
Characteristics(df) ==
    [u \in Units |->
        [k \in DOMAIN df[u] \cup {"density_score", "gdp_per_capita",
                                  "avg_building_age", "floor_area_per_capita"} |->
            CASE k = "density_score" -> RMul(df[u].urbanization, df[u].population)
              [] k = "gdp_per_capita" -> RDiv(df[u].gdp, df[u].population)
              [] k = "avg_building_age" ->
                    RSub(R(RegionalCurrentYear), df[u].avg_construction_year)
              [] k = "floor_area_per_capita" -> RDiv(df[u].floor_area, df[u].population)
              [] OTHER -> df[u][k]]]

\* calculate_regional_characteristics working on the caller's frame itself
calculate_regional_characteristics_inplace(proxy_data) ==
    [proxy_data |-> Characteristics(proxy_data), ret |-> Characteristics(proxy_data)]

\* df = proxy_data.copy(): the caller's frame (proxy_data) stays as it was
calculate_regional_characteristics(proxy_data) ==
    [proxy_data |-> proxy_data, ret |-> Characteristics(proxy_data)]

\* f'{building_type}_stock'
StockCol(building_type) ==
    CASE building_type = "residential"    -> "residential_stock"
      [] building_type = "commercial"     -> "commercial_stock"
      [] building_type = "institutional"  -> "institutional_stock"
      [] building_type = "industrial"     -> "industrial_stock"
      [] building_type = "total"          -> "total_stock"
      [] building_type = "infrastructure" -> "infrastructure_stock"

NoColumn == [made |-> FALSE, exc |-> "none", ret |-> <<>>]

MadeColumn(r) == [made |-> r.exc = "none", exc |-> r.exc, ret |-> r.ret]

\* the branch method == 'hybrid' of the loop body
HybridColumn(allocator, building_type, proxy_data) ==
    IF building_type = "residential"
    THEN MadeColumn(allocate_hybrid(allocator,
            [k \in {"population", "floor_area"} |->
                IF k = "population" THEN Rat(6, 10) ELSE Rat(4, 10)],
            [k \in {"population", "floor_area"} |-> Column(proxy_data, k)]))
    ELSE IF building_type = "commercial"
    THEN LET urban_score ==
                [u \in Units |-> RMul(proxy_data[u].urbanization,
                                      proxy_data[u].population)]
         IN  MadeColumn(allocate_hybrid(allocator,
                [k \in {"gdp", "urban"} |-> IF k = "gdp" THEN Rat(7, 10) ELSE Rat(3, 10)],
                [k \in {"gdp", "urban"} |->
                    IF k = "gdp" THEN Column(proxy_data, "gdp") ELSE urban_score]))
    ELSE IF building_type = "institutional"
    THEN MadeColumn(allocate_by_population(allocator, Column(proxy_data, "population")))
    ELSE IF building_type = "industrial"
    THEN MadeColumn(allocate_by_gdp(allocator, Column(proxy_data, "gdp")))
    ELSE NoColumn

\* the loop body without the test building_type == 'total'
TypeColumnAll(building_type, national_stock, proxy_data, method) ==
    LET allocator == SpatialAllocator(national_stock, Column(proxy_data, "state"))
    IN  IF method = "population"
        THEN MadeColumn(allocate_by_population(allocator, Column(proxy_data, "population")))
        ELSE IF method = "gdp"
        THEN MadeColumn(allocate_by_gdp(allocator, Column(proxy_data, "gdp")))
        ELSE IF method = "floor_area"
        THEN MadeColumn(allocate_by_floor_area(allocator, Column(proxy_data, "floor_area")))
        ELSE IF method = "hybrid"
        THEN HybridColumn(allocator, building_type, proxy_data)
        ELSE NoColumn

\* the body of the loop over national_stocks.items(): the column
\* f'{building_type}_stock' it assigns, if any
TypeColumn(building_type, national_stock, proxy_data, method) ==
    IF building_type = "total" THEN NoColumn
    ELSE LET allocator == SpatialAllocator(national_stock, Column(proxy_data, "state"))
         IN  IF method = "population"
             THEN MadeColumn(allocate_by_population(allocator,
                                                    Column(proxy_data, "population")))
             ELSE IF method = "gdp"
             THEN MadeColumn(allocate_by_gdp(allocator, Column(proxy_data, "gdp")))
             ELSE IF method = "floor_area"
             THEN MadeColumn(allocate_by_floor_area(allocator,
                                                    Column(proxy_data, "floor_area")))
             ELSE IF method = "hybrid"
             THEN HybridColumn(allocator, building_type, proxy_data)
             ELSE NoColumn

\* the loop over national_stocks.items(): for every key the column its
\* pass through the loop body assigns, if any
LoopColumns(national_stocks, proxy_data, method) ==
    [k \in DOMAIN national_stocks |->
        TypeColumn(k, national_stocks[k], proxy_data, method)]

\* the building types the loop assigns a column for, in the order of the loop
StockTypes(national_stocks, columns) ==
    SelectSeq(KeysOf(national_stocks, StockKeys), LAMBDA k : columns[k].made)

\* the exception that ends the loop, "none" if it runs to its end
LoopException(national_stocks, columns) ==
    IF \A k \in DOMAIN national_stocks : columns[k].exc = "none" THEN "none"
    ELSE columns[SelectSeq(KeysOf(national_stocks, StockKeys),
                           LAMBDA k : columns[k].exc # "none")[1]].exc

\* results[stock_columns].sum(axis=1) of region u
TotalStock(columns, types, u) ==
    PdSum([i \in 1..Len(types) |-> columns[types[i]].ret[u]])

\* the frame allocate_national_stock returns: proxy_data is the frame with
\* the regional characteristics, types the building types with a column
NationalResults(proxy_data, columns, types) ==
    [u \in Units |->
        [c \in {"state", "state_abbrev", "total_stock", "population", "gdp",
                "floor_area", "stock_per_capita"}
               \cup {StockCol(k) : k \in Range(types)} |->
            CASE c \in {"state", "state_abbrev", "population", "gdp", "floor_area"} ->
                    proxy_data[u][c]
              [] c = "total_stock" -> TotalStock(columns, types, u)
              [] c = "stock_per_capita" ->
                    RDiv(TotalStock(columns, types, u), proxy_data[u].population)
              [] OTHER ->
                    columns[CHOOSE k \in Range(types) : StockCol(k) = c].ret[u]]]

\* what allocate_national_stock leaves and returns: rc is the outcome of
\* calculate_regional_characteristics(proxy_data), columns that of the loop
NationalOutcome(national_stocks, rc, columns) ==
    [national_stocks |-> national_stocks,
     proxy_data |-> rc.proxy_data,
     exc |-> LoopException(national_stocks, columns),
     ret |-> IF LoopException(national_stocks, columns) = "none"
             THEN NationalResults(rc.ret, columns, StockTypes(national_stocks, columns))
             ELSE <<>>]

\* the body of allocate_national_stock after proxy_data has been rebound
NationalBody(national_stocks, rc, method) ==
    CHOOSE r \in {NationalOutcome(national_stocks, rc, columns) :
                    columns \in {LoopColumns(national_stocks, rc.ret, method)}} : TRUE

\* allocate_national_stock(national_stocks, proxy_data, method): the result
\* (ret), the exception (exc), and the caller's two arguments as the call
\* leaves them
allocate_national_stock(national_stocks, proxy_data, method) ==
    CHOOSE r \in {NationalBody(national_stocks, rc, method) :
                    rc \in {calculate_regional_characteristics(proxy_data)}} : TRUE

(***************************************************************************)
(* State.  mode names the script or function under execution:              *)
(*   "topdown"  main() of concrete-top-down.py                             *)
(*   "survival" calls of survival_function                                 *)
(*   "allocator" a caller of class SpatialAllocator                        *)
(*   "national" a caller of allocate_national_stock and                    *)
(*              calculate_regional_characteristics                         *)
(***************************************************************************)
VARIABLES
    mode,              \* which script runs
    pc,                \* the statement main() is at
    trace,             \* the stages main() has entered, in order
    cement_data,       \* main's frame of cement production
    spending_data,     \* main's frame of spending fractions
    survival_matrix,   \* main's survival matrix
    inflows,           \* main's frame of concrete inflows
    stocks,            \* main's dictionary of current stocks
    stock_timeseries,  \* main's frame of yearly stocks
    files,             \* the files written so far
    probe,             \* two survival_function calls and their results
    alloc,             \* the SpatialAllocator object of the caller
    call,              \* the call made on the spatial module, and its outcome
    proxy_data,        \* the caller's frame of proxy variables
    national_stocks,   \* the caller's dictionary of national stocks
    geocode,           \* the call of census_geocode in progress
    aca,               \* main() of pdf_scraper.py
    permit,            \* the calls of datacleaning_permitdata.py
    mines              \* the script mine_anlaysis.py

tdVars == <<pc, trace, cement_data, spending_data, survival_matrix, inflows,
            stocks, stock_timeseries, files>>

spVars == <<alloc, call, proxy_data, national_stocks>>

dataVars == <<geocode, aca, permit, mines>>

vars == <<mode, tdVars, probe, spVars, dataVars>>

(***************************************************************************)
(* The tables the two loaders can return: rows in ascending year order,    *)
(* one row per year.                                                       *)
(***************************************************************************)
DataYears ==
    ((PRINT_YEAR - MaxPast)..PRINT_YEAR)
        \cup ((CURRENT_YEAR + 1)..(CURRENT_YEAR + MaxFuture))

YearSets == {S \in SUBSET DataYears : Cardinality(S) \in 1..MaxRows}

\* load_usgs_cement_data(): columns year, production_mt; the production
\* of the first row is p, and it grows from row to row
CementTables ==
    UNION {{[i \in 1..Cardinality(S) |->
                [year |-> SortedSeq(S)[i], production_mt |-> p + i - 1]]
            : p \in 1..MaxProd} : S \in YearSets}

\* the fractions load_construction_spending() returns, and fractions that
\* do not sum to 1
FractionProfiles ==
    {[residential_fraction |-> Rat(60, 100), commercial_fraction |-> Rat(25, 100),
      institutional_fraction |-> Rat(10, 100), industrial_fraction |-> Rat(5, 100)],
     [residential_fraction |-> Rat(50, 100), commercial_fraction |-> Rat(25, 100),
      institutional_fraction |-> Rat(10, 100), industrial_fraction |-> Rat(5, 100)]}

\* load_construction_spending(): columns year, <type>_fraction, the
\* fractions being the same in every row
SpendingTables ==
    UNION {{[i \in 1..Cardinality(S) |->
                [k \in {"year"} \cup DOMAIN f |->
                    IF k = "year" THEN SortedSeq(S)[i] ELSE f[k]]]
            : f \in FractionProfiles} : S \in YearSets}

(***************************************************************************)
(* main() of concrete-top-down.py                                          *)
(***************************************************************************)
StageOrder ==
    <<"load", "survival", "inflows", "stock", "timeseries", "plot", "save">>

\* a main that goes from the survival matrix straight to the current stock
MainNextSkipInflows(stage) ==
    CASE stage = "load"       -> "survival"
      [] stage = "survival"   -> "stock"
      [] stage = "inflows"    -> "stock"
      [] stage = "stock"      -> "timeseries"
      [] stage = "timeseries" -> "plot"
      [] stage = "plot"       -> "save"
      [] stage = "save"       -> "done"

\* the statement after a stage of main that returned
MainNext(stage) ==
    CASE stage = "load"       -> "survival"
      [] stage = "survival"   -> "inflows"
      [] stage = "inflows"    -> "stock"
      [] stage = "stock"      -> "timeseries"
      [] stage = "timeseries" -> "plot"
      [] stage = "plot"       -> "save"
      [] stage = "save"       -> "done"

\* cement_data['year'].min()
MinYear(table) == CHOOSE y \in {table[i].year : i \in 1..Len(table)} :
                    \A i \in 1..Len(table) : y <= table[i].year

\* 1. load_usgs_cement_data(), load_construction_spending()
LoadData ==
    /\ mode = "topdown" /\ pc = "load"
    /\ \E c \in CementTables, sp \in SpendingTables :
          /\ cement_data' = c
          /\ spending_data' = sp
    /\ pc' = MainNext("load")
    /\ trace' = Append(trace, "load")
    /\ UNCHANGED <<mode, dataVars, survival_matrix, inflows, stocks, stock_timeseries,
                   files, probe, spVars>>

\* 2. calculate_survival_matrix(CURRENT_YEAR, start_year, LIFETIMES)
CalcSurvivalMatrix ==
    /\ mode = "topdown" /\ pc = "survival"
    /\ \E r \in {calculate_survival_matrix(CURRENT_YEAR, MinYear(cement_data),
                                           LIFETIMES)} :
           /\ survival_matrix' = r.ret
           /\ pc' = IF r.exc = "none" THEN MainNext("survival") ELSE "error"
    /\ trace' = Append(trace, "survival")
    /\ UNCHANGED <<mode, dataVars, cement_data, spending_data, inflows, stocks,
                   stock_timeseries, files, probe, spVars>>

\* 3. calculate_concrete_inflows(cement_data, spending_data)
CalcConcreteInflows ==
    /\ mode = "topdown" /\ pc = "inflows"
    /\ \E r \in {calculate_concrete_inflows(cement_data, spending_data)} :
           /\ cement_data' = r.cement_data
           /\ spending_data' = r.spending_data
           /\ inflows' = r.ret
           /\ pc' = IF r.exc = "none" THEN MainNext("inflows") ELSE "error"
    /\ trace' = Append(trace, "inflows")
    /\ UNCHANGED <<mode, dataVars, survival_matrix, stocks, stock_timeseries, files, probe, spVars>>

\* 4. calculate_stock(inflows, survival_matrix, CURRENT_YEAR), print_stock_summary
CalcStock ==
    /\ mode = "topdown" /\ pc = "stock"
    /\ stocks' = calculate_stock(inflows, survival_matrix, CURRENT_YEAR)
    /\ pc' = MainNext("stock")
    /\ trace' = Append(trace, "stock")
    /\ UNCHANGED <<mode, dataVars, cement_data, spending_data, survival_matrix, inflows,
                   stock_timeseries, files, probe, spVars>>

\* 5. calculate_stock_timeseries(inflows, survival_matrix, start_year, CURRENT_YEAR)
CalcStockTimeseries ==
    /\ mode = "topdown" /\ pc = "timeseries"
    /\ stock_timeseries' =
          calculate_stock_timeseries(inflows, survival_matrix,
                                     MinYear(cement_data), CURRENT_YEAR)
    /\ pc' = MainNext("timeseries")
    /\ trace' = Append(trace, "timeseries")
    /\ UNCHANGED <<mode, dataVars, cement_data, spending_data, survival_matrix, inflows,
                   stocks, files, probe, spVars>>

\* 6. plot_results(stock_timeseries, inflows)
PlotResults ==
    /\ mode = "topdown" /\ pc = "plot"
    /\ files' = files \cup {"concrete_stock_analysis.png"}
    /\ pc' = MainNext("plot")
    /\ trace' = Append(trace, "plot")
    /\ UNCHANGED <<mode, dataVars, cement_data, spending_data, survival_matrix, inflows,
                   stocks, stock_timeseries, probe, spVars>>

\* stock_timeseries.to_csv('concrete_stock_results.csv'), return
SaveResults ==
    /\ mode = "topdown" /\ pc = "save"
    /\ files' = files \cup {"concrete_stock_results.csv"}
    /\ pc' = MainNext("save")
    /\ trace' = Append(trace, "save")
    /\ UNCHANGED <<mode, dataVars, cement_data, spending_data, survival_matrix, inflows,
                   stocks, stock_timeseries, probe, spVars>>

(***************************************************************************)
(* Calls of survival_function with two ages and one parameter set.         *)
(***************************************************************************)
LifetimeParams ==
    {LIFETIMES[b] : b \in DOMAIN LIFETIMES}
        \cup {[mean |-> 0, std |-> 1], [mean |-> 50, std |-> 0],
              [mean |-> 50, std |-> -5], [mean |-> 200, std |-> 30]}

NoProbe == [params |-> [mean |-> 0, std |-> 0], age1 |-> 0, age2 |-> 0,
            s1 |-> NaN, s2 |-> NaN]

SurvivalProbe ==
    /\ mode = "survival"
    /\ probe = NoProbe
    /\ \E params \in LifetimeParams, age \in (-MaxGap)..MaxAge, gap \in 1..MaxGap :
          probe' = [params |-> params, age1 |-> age, age2 |-> age + gap,
                    s1 |-> survival_function(age, params),
                    s2 |-> survival_function(age + gap, params)]
    /\ UNCHANGED <<mode, dataVars, tdVars, spVars>>

(***************************************************************************)
(* A caller of class SpatialAllocator: it builds one allocator and calls   *)
(* one of its methods.                                                     *)
(***************************************************************************)
NoAlloc == [national_stock |-> NaN, spatial_units |-> <<>>, n_units |-> 0]

NoCall == [op |-> "none", args |-> <<>>, exc |-> "none", ret |-> <<>>]

\* the first states of load_spatial_proxy_data()
StateNames ==
    <<"California", "Texas", "Florida", "New York", "Pennsylvania",
      "Illinois", "Ohio", "Georgia", "North Carolina", "Michigan">>

StateAbbrevs == <<"CA", "TX", "FL", "NY", "PA", "IL", "OH", "GA", "NC", "MI">>

\* the proxy series over the units
Series == [Units -> {R(i) : i \in 0..MaxProxy}]

\* the values of a proxy column: none, the same everywhere, growing
ColumnValues ==
    {[u \in Units |-> R(0)], [u \in Units |-> R(MaxProxy)], [u \in Units |-> R(u)]}

\* partial functions from names to values
Dicts(names, values) == UNION {[D -> values] : D \in SUBSET names}

HybridNames == {"population", "gdp"}

WeightValues == {Rat(499, 1000), Rat(999, 2000), Rat(1, 2), R(1)}

Outcome(operation, arguments, r) ==
    [op |-> operation, args |-> arguments, exc |-> r.exc, ret |-> r.ret]

NewAllocator ==
    /\ mode = "allocator" /\ alloc = NoAlloc
    /\ \E national_stock \in 0..MaxStock :
          alloc' = SpatialAllocator(R(national_stock),
                                    [u \in Units |-> StateNames[u]])
    /\ UNCHANGED <<mode, dataVars, tdVars, probe, call, proxy_data, national_stocks>>

AllocateByPopulation ==
    /\ mode = "allocator" /\ alloc # NoAlloc /\ call = NoCall
    /\ \E population \in Series :
          \E r \in {allocate_by_population(alloc, population)} :
              /\ alloc' = r.self
              /\ call' = Outcome("allocate_by_population", <<population>>, r)
    /\ UNCHANGED <<mode, dataVars, tdVars, probe, proxy_data, national_stocks>>

AllocateByGdp ==
    /\ mode = "allocator" /\ alloc # NoAlloc /\ call = NoCall
    /\ \E gdp \in Series :
          \E r \in {allocate_by_gdp(alloc, gdp)} :
              /\ alloc' = r.self
              /\ call' = Outcome("allocate_by_gdp", <<gdp>>, r)
    /\ UNCHANGED <<mode, dataVars, tdVars, probe, proxy_data, national_stocks>>

AllocateByFloorArea ==
    /\ mode = "allocator" /\ alloc # NoAlloc /\ call = NoCall
    /\ \E floor_area \in Series :
          \E r \in {allocate_by_floor_area(alloc, floor_area)} :
              /\ alloc' = r.self
              /\ call' = Outcome("allocate_by_floor_area", <<floor_area>>, r)
    /\ UNCHANGED <<mode, dataVars, tdVars, probe, proxy_data, national_stocks>>

\* spending_ts has two rows (years)
AllocateByConstructionSpending ==
    /\ mode = "allocator" /\ alloc # NoAlloc /\ call = NoCall
    /\ \E y1 \in Series, y2 \in ColumnValues :
          \E r \in {allocate_by_construction_spending(alloc, <<y1, y2>>)} :
              /\ alloc' = r.self
              /\ call' = Outcome("allocate_by_construction_spending", <<<<y1, y2>>>>, r)
    /\ UNCHANGED <<mode, dataVars, tdVars, probe, proxy_data, national_stocks>>

AllocateByNighttimeLights ==
    /\ mode = "allocator" /\ alloc # NoAlloc /\ call = NoCall
    /\ \E ntl \in Series :
          \E r \in {allocate_by_nighttime_lights(alloc, ntl)} :
              /\ alloc' = r.self
              /\ call' = Outcome("allocate_by_nighttime_lights", <<ntl>>, r)
    /\ UNCHANGED <<mode, dataVars, tdVars, probe, proxy_data, national_stocks>>

AllocateHybrid ==
    /\ mode = "allocator" /\ alloc # NoAlloc /\ call = NoCall
    /\ \E weights \in Dicts(HybridNames, WeightValues),
          proxies \in Dicts(HybridNames, ColumnValues) :
          \E r \in {allocate_hybrid(alloc, weights, proxies)} :
              /\ alloc' = r.self
              /\ call' = Outcome("allocate_hybrid", <<weights, proxies>>, r)
    /\ UNCHANGED <<mode, dataVars, tdVars, probe, proxy_data, national_stocks>>

TypeIntensities ==
    [k \in {"residential", "commercial", "industrial"} |->
        IF k = "residential" THEN Rat(15, 100)
        ELSE IF k = "commercial" THEN Rat(25, 100)
        ELSE Rat(20, 100)]

\* fractions of two building types by unit, intensities of three
AllocateWithBuildingTypes ==
    /\ mode = "allocator" /\ alloc # NoAlloc /\ call = NoCall
    /\ \E fractions \in [{"residential", "commercial"} -> ColumnValues] :
          \E r \in {allocate_with_building_types(alloc, fractions, TypeIntensities)} :
              /\ alloc' = r.self
              /\ call' = Outcome("allocate_with_building_types",
                                 <<fractions, TypeIntensities>>, r)
    /\ UNCHANGED <<mode, dataVars, tdVars, probe, proxy_data, national_stocks>>

(***************************************************************************)
(* A caller of allocate_national_stock and                                 *)
(* calculate_regional_characteristics, as main() of                        *)
(* concrete_stock_spatial.py is.                                           *)
(***************************************************************************)
\* the values of the column urbanization, a rate
RateValues == {[u \in Units |-> R(0)], [u \in Units |-> Rat(1, 2)]}

\* the frames load_spatial_proxy_data('state') can return
ProxyFrames ==
    {[u \in Units |->
        [state |-> StateNames[u], state_abbrev |-> StateAbbrevs[u],
         population |-> population[u], gdp |-> gdp[u], floor_area |-> floor_area[u],
         urbanization |-> urbanization[u], avg_construction_year |-> R(1975)]]
     : population \in ColumnValues, gdp \in ColumnValues,
       floor_area \in ColumnValues \ {[u \in Units |-> R(MaxProxy)]},
       urbanization \in RateValues}

\* national_stocks of main(), and a building type main() does not have
ExampleStocks ==
    [residential |-> 3000, commercial |-> 1200, institutional |-> 600,
     industrial |-> 400, total |-> 5200, infrastructure |-> 800]

NationalStockDicts ==
    UNION {{[k \in K |-> R(scale * ExampleStocks[k])] : scale \in 1..MaxStock}
           : K \in SUBSET Range(StockKeys)}

Methods == {"population", "gdp", "floor_area", "hybrid", "nighttime_lights"}

LoadSpatialProxyData ==
    /\ mode = "national" /\ proxy_data = <<>>
    /\ proxy_data' \in ProxyFrames
    /\ national_stocks' \in NationalStockDicts
    /\ UNCHANGED <<mode, dataVars, tdVars, probe, alloc, call>>

AllocateNationalStock ==
    /\ mode = "national" /\ proxy_data # <<>> /\ call = NoCall
    /\ \E method \in Methods :
          \E r \in {allocate_national_stock(national_stocks, proxy_data, method)} :
              /\ national_stocks' = r.national_stocks
              /\ proxy_data' = r.proxy_data
              /\ call' = Outcome("allocate_national_stock",
                                 <<national_stocks, proxy_data, method>>, r)
    /\ UNCHANGED <<mode, dataVars, tdVars, probe, alloc>>

CalculateRegionalCharacteristics ==
    /\ mode = "national" /\ proxy_data # <<>> /\ call = NoCall
    /\ \E r \in {calculate_regional_characteristics(proxy_data)} :
           /\ proxy_data' = r.proxy_data
           /\ call' = [op |-> "calculate_regional_characteristics",
                       args |-> <<proxy_data>>, exc |-> "none", ret |-> r.ret]
    /\ UNCHANGED <<mode, dataVars, tdVars, probe, alloc, national_stocks>>

(***************************************************************************)
(* geocoder.py: census_geocode(address, retries).  A value the function    *)
(* returns is the tuple of its elements: <<lat, lon>> for a pair, <<>> for  *)
(* None (the function ends without a return statement).                   *)
(***************************************************************************)
\* the entries of addressMatches a response can have
AddressMatches ==
    {[coordinates |-> [x |-> "x1", y |-> "y1"]],
     [coordinates |-> [x |-> "x2", y |-> "y2"]]}

\* what a request can come to: requests.get raises (timeout, no connection),
\* r.json() raises (the body is not JSON), or a JSON body with its matches
Responses ==
    {[kind |-> "get_raises", matches |-> <<>>],
     [kind |-> "json_raises", matches |-> <<>>]}
        \cup {[kind |-> "json", matches |-> m] :
                m \in {<<>>} \cup {<<a>> : a \in AddressMatches}
                        \cup {<<a, b>> : a \in AddressMatches, b \in AddressMatches}}

\* the body of try: the exception raised, or the value returned
TryBody(response) ==
    IF response.kind # "json" THEN [exc |-> TRUE, ret |-> <<>>]
    ELSE IF Len(response.matches) > 0
    THEN [exc |-> FALSE,
          ret |-> <<response.matches[1].coordinates.y,
                    response.matches[1].coordinates.x>>]
    ELSE [exc |-> FALSE, ret |-> <<"None", "None">>]

\* an except clause that sleeps and goes on after every attempt
AfterExceptionAlwaysRetry(attempt, retries) == "sleep"

\* the except clause: sleep and continue, or return (None, None)
AfterException(attempt, retries) ==
    IF attempt < retries - 1 THEN "sleep" ELSE "return"

NoGeocode ==
    [pc |-> "idle", retries |-> 0, attempt |-> 0, log |-> <<>>, failed |-> 0,
     response |-> [kind |-> "none", matches |-> <<>>], ret |-> <<>>]

\* lat, lon = census_geocode(addr, retries) is entered
CensusGeocodeCall ==
    /\ mode = "geocoder" /\ geocode.pc = "idle"
    /\ \E retries \in 0..MaxRetries :
          geocode' = [geocode EXCEPT !.pc = "for", !.retries = retries]
    /\ UNCHANGED <<mode, tdVars, probe, spVars, aca, permit, mines>>

\* for attempt in range(retries): the next attempt, or the end of the
\* function when the range is used up
CensusGeocodeFor ==
    /\ mode = "geocoder" /\ geocode.pc = "for"
    /\ geocode' = IF geocode.attempt < geocode.retries
                  THEN [geocode EXCEPT !.pc = "try"]
                  ELSE [geocode EXCEPT !.pc = "returned", !.ret = <<>>]
    /\ UNCHANGED <<mode, tdVars, probe, spVars, aca, permit, mines>>

\* the try block: one HTTP request and the reading of its response
CensusGeocodeTry ==
    /\ mode = "geocoder" /\ geocode.pc = "try"
    /\ \E response \in Responses :
          \E r \in {TryBody(response)} :
              geocode' = [geocode EXCEPT
                             !.log = Append(@, "request"),
                             !.response = response,
                             !.failed = IF r.exc THEN @ + 1 ELSE @,
                             !.pc = IF r.exc THEN "except" ELSE "returned",
                             !.ret = r.ret]
    /\ UNCHANGED <<mode, tdVars, probe, spVars, aca, permit, mines>>

\* except Exception
CensusGeocodeExcept ==
    /\ mode = "geocoder" /\ geocode.pc = "except"
    /\ geocode' = IF AfterException(geocode.attempt, geocode.retries) = "sleep"
                  THEN [geocode EXCEPT !.log = Append(@, "sleep"),
                                       !.attempt = @ + 1, !.pc = "for"]
                  ELSE [geocode EXCEPT !.pc = "returned", !.ret = <<"None", "None">>]
    /\ UNCHANGED <<mode, tdVars, probe, spVars, aca, permit, mines>>

\* the caller unpacks the value: lat, lon = ...
CensusGeocodeUnpack ==
    /\ mode = "geocoder" /\ geocode.pc = "returned"
    /\ geocode' = [geocode EXCEPT
                      !.pc = IF Len(geocode.ret) = 2 THEN "unpacked" ELSE "TypeError"]
    /\ UNCHANGED <<mode, tdVars, probe, spVars, aca, permit, mines>>

(***************************************************************************)
(* pdf_scraper.py: main(), scrape_multiple_pdfs, save_to_csv, save_to_json *)
(***************************************************************************)
\* the PDF files there are: the ones the pattern ACA*.pdf matches, in the
\* order glob lists them
AcaPdfs == <<"ACA_Alabama.pdf", "ACA_Texas.pdf">>

\* glob.glob(str(pdf_pattern)) in a script directory holding the files present
Glob(present) == SelectSeq(AcaPdfs, LAMBDA f : f \in present)

\* the positional arguments: up to MaxPdfs paths
PdfArguments ==
    UNION {[1..n -> Range(AcaPdfs) \cup {"missing.pdf"}] : n \in 0..MaxPdfs}

\* scrape_pdf(pdf_path): PdfReader raises on a file that is missing or broken
scrape_pdf(pdf_path, readable) ==
    IF pdf_path \in readable
    THEN [exc |-> FALSE, ret |-> [pdf_path |-> pdf_path]]
    ELSE [exc |-> TRUE, ret |-> <<>>]

\* a main that goes on to scrape an empty list of files
AfterAutoDetectGoOn(pdfs) == "format"

\* lines 265-268: sys.exit(1) when no file is named and none is found
AfterAutoDetect(pdfs) == IF pdfs = <<>> THEN "exit" ELSE "format"

\* a main that writes the CSV for --csv only
WritesCsvFlagOnly(args) == args.csv

\* if args.csv or args.both
WritesCsv(args) == args.csv \/ args.both

\* if args.json or args.both
WritesJson(args) == args.json \/ args.both

NoAca ==
    [pc |-> "start", argv |-> [pdfs |-> <<>>, csv |-> FALSE, json |-> FALSE, both |-> FALSE],
     args |-> [pdfs |-> <<>>, csv |-> FALSE, json |-> FALSE, both |-> FALSE],
     present |-> {}, readable |-> {}, i |-> 0, results |-> <<>>, stderr |-> <<>>,
     log |-> <<>>, files |-> {}, status |-> -1]

\* args = parser.parse_args(), in a directory with some of the ACA files
AcaParseArgs ==
    /\ mode = "scraper" /\ aca.pc = "start"
    /\ \E pdfs \in PdfArguments, csv \in BOOLEAN, json \in BOOLEAN, both \in BOOLEAN,
          present \in SUBSET Range(AcaPdfs), readable \in SUBSET Range(AcaPdfs) :
          /\ readable \subseteq present
          /\ aca' = [aca EXCEPT
                        !.pc = "detect",
                        !.argv = [pdfs |-> pdfs, csv |-> csv, json |-> json, both |-> both],
                        !.args = [pdfs |-> pdfs, csv |-> csv, json |-> json, both |-> both],
                        !.present = present, !.readable = readable]
    /\ UNCHANGED <<mode, tdVars, probe, spVars, geocode, permit, mines>>

\* if not args.pdfs: the files ACA*.pdf of the script's directory, or exit
AcaAutoDetect ==
    /\ mode = "scraper" /\ aca.pc = "detect"
    /\ aca' = IF aca.args.pdfs # <<>> THEN [aca EXCEPT !.pc = "format"]
              ELSE IF AfterAutoDetect(Glob(aca.present)) = "exit"
              THEN [aca EXCEPT !.args.pdfs = Glob(aca.present),
                               !.pc = "exit", !.status = 1]
              ELSE [aca EXCEPT !.args.pdfs = Glob(aca.present), !.pc = "format"]
    /\ UNCHANGED <<mode, tdVars, probe, spVars, geocode, permit, mines>>

\* if not args.csv and not args.json and not args.both: args.both = True
AcaDefaultFormat ==
    /\ mode = "scraper" /\ aca.pc = "format"
    /\ aca' = [aca EXCEPT
                  !.args.both = @ \/ (~aca.args.csv /\ ~aca.args.json /\ ~aca.args.both),
                  !.pc = "scrape", !.i = 1]
    /\ UNCHANGED <<mode, tdVars, probe, spVars, geocode, permit, mines>>

\* a loop that tries a PDF that failed a second time
AcaScrapeRetry ==
    /\ mode = "scraper" /\ aca.pc = "scrape" /\ aca.i <= Len(aca.args.pdfs)
    /\ \E r \in {scrape_pdf(aca.args.pdfs[aca.i], aca.readable)} :
          aca' = [aca EXCEPT
                     !.log = Append(@, [op |-> "scrape", arg |-> aca.args.pdfs[aca.i]]),
                     !.results = IF r.exc THEN @ ELSE Append(@, r.ret),
                     !.stderr = IF r.exc THEN Append(@, aca.args.pdfs[aca.i]) ELSE @,
                     !.i = IF r.exc /\ Len(aca.log) < aca.i THEN @ ELSE @ + 1]
    /\ UNCHANGED <<mode, tdVars, probe, spVars, geocode, permit, mines>>

\* one pass through the loop of scrape_multiple_pdfs
AcaScrape ==
    /\ mode = "scraper" /\ aca.pc = "scrape" /\ aca.i <= Len(aca.args.pdfs)
    /\ \E r \in {scrape_pdf(aca.args.pdfs[aca.i], aca.readable)} :
          aca' = [aca EXCEPT
                     !.log = Append(@, [op |-> "scrape", arg |-> aca.args.pdfs[aca.i]]),
                     !.results = IF r.exc THEN @ ELSE Append(@, r.ret),
                     !.stderr = IF r.exc THEN Append(@, aca.args.pdfs[aca.i]) ELSE @,
                     !.i = @ + 1]
    /\ UNCHANGED <<mode, tdVars, probe, spVars, geocode, permit, mines>>

\* return results, then lines 283-284
AcaSaveCsv ==
    /\ mode = "scraper" /\ aca.pc = "scrape" /\ aca.i > Len(aca.args.pdfs)
    /\ aca' = IF WritesCsv(aca.args)
              THEN [aca EXCEPT !.log = Append(@, [op |-> "write", arg |-> "aca_data.csv"]),
                               !.files = @ \cup {"aca_data.csv"}, !.pc = "save_json"]
              ELSE [aca EXCEPT !.pc = "save_json"]
    /\ UNCHANGED <<mode, tdVars, probe, spVars, geocode, permit, mines>>

\* lines 286-287, and the summary
AcaSaveJson ==
    /\ mode = "scraper" /\ aca.pc = "save_json"
    /\ aca' = IF WritesJson(aca.args)
              THEN [aca EXCEPT !.log = Append(@, [op |-> "write", arg |-> "aca_data.json"]),
                               !.files = @ \cup {"aca_data.json"},
                               !.pc = "done", !.status = 0]
              ELSE [aca EXCEPT !.pc = "done", !.status = 0]
    /\ UNCHANGED <<mode, tdVars, probe, spVars, geocode, permit, mines>>

(***************************************************************************)
(* datacleaning_permitdata.py: clean_csv_file and                          *)
(* clean_all_csv_in_directory.  A frame is a sequence of rows; a row has   *)
(* the index label read_csv gave it and its cells ("nan" for a missing     *)
(* cell); cols lists the positions of the columns the frame keeps.         *)
(***************************************************************************)
\* df.iloc[SkippedRows:], line 45
SkippedRows == 6

\* len(column_names), lines 72-81
NamedColumns == 8

\* the cells of a row of a raw file: an empty row, a row with a padded and a
\* missing cell, a full row
RawRows == {<<"nan", "nan">>, <<" a ", "nan">>, <<"a", "b">>}

\* the contents of a raw file, row by row
RawContents == UNION {[1..n -> RawRows] : n \in 0..MaxLines}

\* the stems of the file names: re.search(r'(\d{4})', stem) finds a year in
\* the stems that hold four digits in a row
HasYear(name) == name # "permits.csv"

FileNames == {"stateannual_202299.csv", "stateannual_202399.csv", "permits.csv"}

\* pd.read_csv(input_file, header=None): raises on a file without columns or
\* one that cannot be read
ReadCsv(file) ==
    IF ~file.readable \/ file.rows = <<>>
    THEN [exc |-> TRUE, ret |-> <<>>]
    ELSE [exc |-> FALSE,
          ret |-> [rows |-> [i \in 1..Len(file.rows) |->
                                [index |-> i - 1, cells |-> file.rows[i]]],
                   cols |-> <<1, 2>>]]

\* df.iloc[n:]
ILocFrom(df, n) == [df EXCEPT !.rows = SubSeq(df.rows, n + 1, Len(df.rows))]

\* df.dropna(how='all')
DropEmptyRows(df) ==
    [df EXCEPT !.rows = SelectSeq(df.rows,
                                  LAMBDA r : \E c \in Range(df.cols) : r.cells[c] # "nan")]

\* df.dropna(axis=1, how='all')
DropEmptyColumns(df) ==
    [df EXCEPT !.cols = SelectSeq(df.cols,
                                  LAMBDA c : \E i \in 1..Len(df.rows) :
                                                df.rows[i].cells[c] # "nan")]

\* x.strip() if isinstance(x, str) else x, then fillna('')
CleanCell(x) ==
    IF x = "nan" THEN "" ELSE IF x = " a " THEN "a" ELSE x

\* lines 54-57
CleanCells(df) ==
    [df EXCEPT !.rows = [i \in 1..Len(df.rows) |->
                            [df.rows[i] EXCEPT !.cells = [c \in 1..Len(@) |-> CleanCell(@[c])]]]]

\* lines 60-88: the frame written, with the year column and the header
Cleaned(df, name) ==
    [rows |-> df.rows, cols |-> df.cols, year |-> HasYear(name),
     named |-> Len(df.cols) + (IF HasYear(name) THEN 1 ELSE 0) = NamedColumns]

\* the try block of clean_csv_file up to the frame that is saved
CleanFrame(file) ==
    IF ReadCsv(file).exc THEN [exc |-> TRUE, ret |-> <<>>]
    ELSE [exc |-> FALSE,
          ret |-> Cleaned(CleanCells(DropEmptyColumns(DropEmptyRows(
                              ILocFrom(ReadCsv(file).ret, SkippedRows)))),
                          file.name)]

\* clean_csv_file(input_file, output_dir): output_dir is "none" for None,
\* "ok" for a directory that is there or can be made, "blocked" for one
\* mkdir raises on.  raised: an exception leaves the function; error: an
\* error message is printed; mkdir: the output directory is made; written:
\* the frame saved to <stem>_cleaned.csv, if any.
clean_csv_file(file, output_dir) ==
    IF ~file.exists
    THEN [raised |-> FALSE, error |-> TRUE, mkdir |-> FALSE, saved |-> FALSE,
          written |-> <<>>]
    ELSE IF output_dir = "blocked"
    THEN [raised |-> TRUE, error |-> FALSE, mkdir |-> FALSE, saved |-> FALSE,
          written |-> <<>>]
    ELSE IF CleanFrame(file).exc
    THEN [raised |-> FALSE, error |-> TRUE, mkdir |-> output_dir = "ok",
          saved |-> FALSE, written |-> <<>>]
    ELSE [raised |-> FALSE, error |-> FALSE, mkdir |-> output_dir = "ok",
          saved |-> TRUE, written |-> CleanFrame(file).ret]

\* the files a run is made on: one that cannot be read, one without
\* columns, one with MaxLines full rows
SampleFiles ==
    {[name |-> name, exists |-> TRUE, readable |-> readable, rows |-> rows] :
        name \in FileNames, readable \in BOOLEAN,
        rows \in {<<>>, [i \in 1..MaxLines |-> <<"a", "b">>]}}

\* list(input_path.glob('*.csv')): files with different names
CsvFileLists ==
    {l \in UNION {[1..n -> SampleFiles] : n \in 0..MaxFiles} :
        \A i \in 1..Len(l), j \in 1..Len(l) : i # j => l[i].name # l[j].name}

OutputDirs == {"none", "ok", "blocked"}

NoPermit ==
    [pc |-> "start", csv_files |-> <<>>, output_dir |-> "none", i |-> 0,
     calls |-> <<>>]

\* the call clean_csv_file(file, output_dir), as the caller sees it
PermitCall(file, output_dir) ==
    [file |-> file, output_dir |-> output_dir, out |-> clean_csv_file(file, output_dir)]

\* clean_csv_file called on one readable file
PermitCleanFile ==
    /\ mode = "cleaner" /\ permit.pc = "start"
    /\ \E name \in FileNames, rows \in RawContents :
          \E c \in {PermitCall([name |-> name, exists |-> TRUE, readable |-> TRUE,
                                rows |-> rows], "ok")} :
              permit' = [permit EXCEPT !.output_dir = "ok", !.calls = <<c>>,
                                       !.pc = "returned"]
    /\ UNCHANGED <<mode, tdVars, probe, spVars, geocode, aca, mines>>

\* clean_csv_file called on a path where there is no file
PermitCleanMissing ==
    /\ mode = "cleaner" /\ permit.pc = "start"
    /\ \E name \in FileNames, output_dir \in OutputDirs :
          \E c \in {PermitCall([name |-> name, exists |-> FALSE, readable |-> FALSE,
                                rows |-> <<>>], output_dir)} :
              permit' = [permit EXCEPT !.output_dir = output_dir, !.calls = <<c>>,
                                       !.pc = "returned"]
    /\ UNCHANGED <<mode, tdVars, probe, spVars, geocode, aca, mines>>

\* clean_all_csv_in_directory(input_dir, output_dir) up to its loop
PermitListDirectory ==
    /\ mode = "cleaner" /\ permit.pc = "start"
    /\ \E csv_files \in CsvFileLists, output_dir \in OutputDirs :
          permit' = [permit EXCEPT !.csv_files = csv_files, !.output_dir = output_dir,
                                   !.i = 1,
                                   !.pc = IF csv_files = <<>> THEN "no_files" ELSE "loop"]
    /\ UNCHANGED <<mode, tdVars, probe, spVars, geocode, aca, mines>>

\* one pass through the loop over csv_files: an exception that leaves
\* clean_csv_file leaves the loop and the function as well
PermitLoopCall ==
    /\ mode = "cleaner" /\ permit.pc = "loop" /\ permit.i <= Len(permit.csv_files)
    /\ \E c \in {PermitCall(permit.csv_files[permit.i], permit.output_dir)} :
          permit' = [permit EXCEPT !.calls = Append(@, c), !.i = @ + 1,
                                   !.pc = IF c.out.raised THEN "raised" ELSE "loop"]
    /\ UNCHANGED <<mode, tdVars, probe, spVars, geocode, aca, mines>>

\* the loop is over: print("All files processed!")
PermitAllProcessed ==
    /\ mode = "cleaner" /\ permit.pc = "loop" /\ permit.i > Len(permit.csv_files)
    /\ permit' = [permit EXCEPT !.pc = "processed"]
    /\ UNCHANGED <<mode, tdVars, probe, spVars, geocode, aca, mines>>

(***************************************************************************)
(* mine_anlaysis.py, a script without functions.  A frame is a sequence of *)
(* rows.                                                                   *)
(***************************************************************************)
exclude_statuses == {"Abandoned", "AbandonedSealed", "NonProdActive"}

MineIds == {"M1", "M2"}

MineStatuses == exclude_statuses \cup {"Active"}

\* US-DOL-All-Sand-Mines-Address_12072025.csv
AddressFrames ==
    UNION {[1..n -> {[id |-> id, State |-> "TX"] : id \in MineIds}] : n \in 0..MaxRecords}

\* US-DOL-All-Sand-Mines_12072025.csv
StatusFrames ==
    UNION {[1..n -> {[id |-> id, status |-> st] : id \in MineIds, st \in MineStatuses}]
           : n \in 0..MaxRecords}

\* a filter that keeps every row of the status data
KeepAllStatuses(mines_status) == mines_status

\* mines_status[~mines_status['Mine Status'].isin(exclude_statuses)]
KeepActive(mines_status) ==
    SelectSeq(mines_status, LAMBDA r : r.status \notin exclude_statuses)

\* mines_status[mines_status['Mine Status'].isin(exclude_statuses)]
KeepExcluded(mines_status) ==
    SelectSeq(mines_status, LAMBDA r : r.status \in exclude_statuses)

\* the rows of right with the Mine ID of the left row l, joined to l
RECURSIVE MineMergeRow(_, _)
MineMergeRow(l, right) ==
    IF right = <<>> THEN <<>>
    ELSE (IF right[1].id = l.id
          THEN <<[id |-> l.id, State |-> l.State, status |-> right[1].status]>>
          ELSE <<>>) \o MineMergeRow(l, Tail(right))

\* left.merge(right, on='Mine ID', how='inner')
RECURSIVE MineMerge(_, _)
MineMerge(left, right) ==
    IF left = <<>> THEN <<>>
    ELSE MineMergeRow(left[1], right) \o MineMerge(Tail(left), right)

\* df.drop_duplicates(subset=['Mine ID'], keep='first')
DropDuplicates(df) ==
    SelectSeq([i \in 1..Len(df) |-> [row |-> df[i], first |-> \A j \in 1..(i - 1) : df[j].id # df[i].id]],
              LAMBDA e : e.first)

\* the rows of a frame of pairs [row, first]
Rows(marked) == [i \in 1..Len(marked) |-> marked[i].row]

NoMines ==
    [pc |-> "load", mines_address |-> <<>>, mines_status |-> <<>>,
     active_mines |-> <<>>, files |-> <<>>]

\* the names of the files written so far
MineFiles == {mines.files[i].name : i \in 1..Len(mines.files)}

\* the rows written to a file
MineFile(name) ==
    mines.files[CHOOSE i \in 1..Len(mines.files) : mines.files[i].name = name].rows

\* steps 1 and 2: the two datasets are read
MinesLoad ==
    /\ mode = "mines" /\ mines.pc = "load"
    /\ \E a \in AddressFrames, st \in StatusFrames :
          mines' = [mines EXCEPT !.mines_address = a, !.mines_status = st,
                                 !.pc = "join"]
    /\ UNCHANGED <<mode, tdVars, probe, spVars, geocode, aca, permit>>

\* steps 3 to 5: filter, join on Mine ID, drop the duplicate Mine IDs
MinesJoin ==
    /\ mode = "mines" /\ mines.pc = "join"
    /\ mines' = [mines EXCEPT
                    !.active_mines =
                        Rows(DropDuplicates(MineMerge(mines.mines_address,
                                                      KeepActive(mines.mines_status)))),
                    !.pc = "summary"]
    /\ UNCHANGED <<mode, tdVars, probe, spVars, geocode, aca, permit>>

\* steps 6 and 7: the counts by state; line 135 divides by the number of
\* states, which is 0 when there is no active mine
MinesSummary ==
    /\ mode = "mines" /\ mines.pc = "summary"
    /\ mines' = [mines EXCEPT
                    !.pc = IF mines.active_mines = <<>> THEN "ZeroDivisionError"
                           ELSE "save"]
    /\ UNCHANGED <<mode, tdVars, probe, spVars, geocode, aca, permit>>

\* step 8: active_mines.csv and active_mines_by_state.csv
MinesSave ==
    /\ mode = "mines" /\ mines.pc = "save"
    /\ mines' = [mines EXCEPT
                    !.files = @ \o <<[name |-> "active_mines.csv",
                                      rows |-> mines.active_mines],
                                     [name |-> "active_mines_by_state.csv",
                                      rows |-> <<[State |-> "TX",
                                                  Num_Active_Mines |->
                                                      Len(mines.active_mines)]>>]>>,
                    !.pc = "excluded"]
    /\ UNCHANGED <<mode, tdVars, probe, spVars, geocode, aca, permit>>

\* step 9: excluded_inactive_mines.csv, if a mine was excluded
MinesExcluded ==
    /\ mode = "mines" /\ mines.pc = "excluded"
    /\ \E excluded_mines \in {MineMerge(mines.mines_address,
                                        KeepExcluded(mines.mines_status))} :
          mines' = [mines EXCEPT
                       !.files = IF Len(excluded_mines) > 0
                                 THEN Append(@, [name |-> "excluded_inactive_mines.csv",
                                                 rows |-> excluded_mines])
                                 ELSE @,
                       !.pc = "complete"]
    /\ UNCHANGED <<mode, tdVars, probe, spVars, geocode, aca, permit>>

Blank ==
    /\ pc = "load"
    /\ trace = <<>>
    /\ cement_data = <<>>
    /\ spending_data = <<>>
    /\ survival_matrix = <<>>
    /\ inflows = <<>>
    /\ stocks = <<>>
    /\ stock_timeseries = <<>>
    /\ files = {}
    /\ probe = NoProbe
    /\ alloc = NoAlloc
    /\ call = NoCall
    /\ proxy_data = <<>>
    /\ national_stocks = <<>>
    /\ geocode = NoGeocode
    /\ aca = NoAca
    /\ permit = NoPermit
    /\ mines = NoMines

Init ==
    /\ mode \in {"topdown", "survival", "allocator", "national",
                 "geocoder", "scraper", "cleaner", "mines"}
    /\ Blank

NextTopDown ==
    \/ LoadData
    \/ CalcSurvivalMatrix
    \/ CalcConcreteInflows
    \/ CalcStock
    \/ CalcStockTimeseries
    \/ PlotResults
    \/ SaveResults

NextAllocator ==
    \/ NewAllocator
    \/ AllocateByPopulation
    \/ AllocateByGdp
    \/ AllocateByFloorArea
    \/ AllocateByConstructionSpending
    \/ AllocateByNighttimeLights
    \/ AllocateHybrid
    \/ AllocateWithBuildingTypes

NextNational ==
    \/ LoadSpatialProxyData
    \/ AllocateNationalStock
    \/ CalculateRegionalCharacteristics

Next ==
    \/ LoadData
    \/ CalcSurvivalMatrix
    \/ CalcConcreteInflows
    \/ CalcStock
    \/ CalcStockTimeseries
    \/ PlotResults
    \/ SaveResults
    \/ SurvivalProbe
    \/ NewAllocator
    \/ AllocateByPopulation
    \/ AllocateByGdp
    \/ AllocateByFloorArea
    \/ AllocateByConstructionSpending
    \/ AllocateByNighttimeLights
    \/ AllocateHybrid
    \/ AllocateWithBuildingTypes
    \/ LoadSpatialProxyData
    \/ AllocateNationalStock
    \/ CalculateRegionalCharacteristics
    \/ CensusGeocodeCall
    \/ CensusGeocodeFor
    \/ CensusGeocodeTry
    \/ CensusGeocodeExcept
    \/ CensusGeocodeUnpack
    \/ AcaParseArgs
    \/ AcaAutoDetect
    \/ AcaDefaultFormat
    \/ AcaScrape
    \/ AcaSaveCsv
    \/ AcaSaveJson
    \/ PermitCleanFile
    \/ PermitCleanMissing
    \/ PermitListDirectory
    \/ PermitLoopCall
    \/ PermitAllProcessed
    \/ MinesLoad
    \/ MinesJoin
    \/ MinesSummary
    \/ MinesSave
    \/ MinesExcluded

\* every script and function of the model
Spec == Init /\ [][Next]_vars

\* main() of concrete-top-down.py
InitTopDown == mode = "topdown" /\ Blank

SpecTopDown == InitTopDown /\ [][NextTopDown]_vars

\* calls of survival_function
InitSurvival == mode = "survival" /\ Blank

SpecSurvival == InitSurvival /\ [][SurvivalProbe]_vars

\* a caller of class SpatialAllocator
InitAllocator == mode = "allocator" /\ Blank

SpecAllocator == InitAllocator /\ [][NextAllocator]_vars

\* a caller of allocate_national_stock
InitNational == mode = "national" /\ Blank

SpecNational == InitNational /\ [][NextNational]_vars

NextGeocoder ==
    \/ CensusGeocodeCall
    \/ CensusGeocodeFor
    \/ CensusGeocodeTry
    \/ CensusGeocodeExcept
    \/ CensusGeocodeUnpack

NextScraper ==
    \/ AcaParseArgs
    \/ AcaAutoDetect
    \/ AcaDefaultFormat
    \/ AcaScrape
    \/ AcaSaveCsv
    \/ AcaSaveJson

NextCleaner ==
    \/ PermitCleanFile
    \/ PermitCleanMissing
    \/ PermitListDirectory
    \/ PermitLoopCall
    \/ PermitAllProcessed

NextMines ==
    \/ MinesLoad
    \/ MinesJoin
    \/ MinesSummary
    \/ MinesSave
    \/ MinesExcluded

\* a caller of census_geocode
InitGeocoder == mode = "geocoder" /\ Blank

SpecGeocoder == InitGeocoder /\ [][NextGeocoder]_vars

\* main() of pdf_scraper.py
InitScraper == mode = "scraper" /\ Blank

SpecScraper == InitScraper /\ [][NextScraper]_vars

\* a caller of datacleaning_permitdata.py
InitCleaner == mode = "cleaner" /\ Blank

SpecCleaner == InitCleaner /\ [][NextCleaner]_vars

\* the script mine_anlaysis.py
InitMines == mode = "mines" /\ Blank

SpecMines == InitMines /\ [][NextMines]_vars

\* the data scripts: the geocoder, the scraper and the cleaner
InitData == mode \in {"geocoder", "scraper", "cleaner"} /\ Blank

NextData == NextGeocoder \/ NextScraper \/ NextCleaner

SpecData == InitData /\ [][NextData]_vars

(***************************************************************************)
(* Properties.  Sums are taken over sets of years, building types or       *)
(* units, in any order (the numbers are exact).                            *)
(***************************************************************************)
RECURSIVE SetSum(_, _)
SetSum(f, S) ==
    IF S = {} THEN R(0)
    ELSE LET x == CHOOSE y \in S : TRUE
         IN  RAdd(f[x], SetSum(f, S \ {x}))

TypeSet == {"residential", "commercial", "institutional", "industrial"}

YearsOf(table) == {table[i].year : i \in 1..Len(table)}

\* the row of a table for a year
RowOf(table, year) == table[CHOOSE i \in 1..Len(table) : table[i].year = year]

StockDone == mode = "topdown" /\ pc \in {"timeseries", "plot", "save", "done"}

\* C1 as stated: calculate_stock returns, for each of the four building
\* types, the sum over every inflow year of inflow(year, type) x
\* survival(year, type), and 'total' is the sum of the four.
C1_EveryInflowYear ==
    StockDone =>
        /\ \A b \in TypeSet :
              stocks[b] =
                 SetSum([y \in YearsOf(inflows) |->
                            RMul(RowOf(inflows, y)[InflowCol(b)],
                                 survival_function(CURRENT_YEAR - y, LIFETIMES[b]))],
                        YearsOf(inflows))
        /\ stocks["total"] = SetSum(stocks, TypeSet)

\* C1 amended: calculate_stock returns, for each of the four building
\* types, the sum of inflow(year, type) x survival_matrix[year, type] over
\* the inflow years that are in the index of the survival matrix (an inflow
\* year outside it contributes nothing), and 'total' is the sum of the four.
C1_YearsInMatrix ==
    StockDone =>
        /\ DOMAIN stocks = TypeSet \cup {"total"}
        /\ \A b \in TypeSet :
              stocks[b] =
                 SetSum([y \in YearsOf(inflows) \cap DOMAIN survival_matrix |->
                            RMul(RowOf(inflows, y)[InflowCol(b)], survival_matrix[y][b])],
                        YearsOf(inflows) \cap DOMAIN survival_matrix)
        /\ stocks["total"] = SetSum(stocks, TypeSet)

\* a stock was computed from a cohort inside the matrix while another cohort
\* lies outside it
C1_Witness ==
    /\ StockDone
    /\ \E y \in YearsOf(inflows) : y \notin DOMAIN survival_matrix
    /\ \E y \in YearsOf(inflows) : y \in DOMAIN survival_matrix
    /\ RLt(R(0), stocks["industrial"])

TimeseriesDone == mode = "topdown" /\ pc \in {"plot", "save", "done"}

\* C7: calculate_stock_timeseries returns one row per year from start_year
\* to end_year, in ascending order; in the row of year Y each type's stock is
\* the sum of inflow(b) x survival(Y - b) over the inflow years b <= Y only,
\* and 'total' is the sum of the four stocks of the row.
C7_Timeseries ==
    TimeseriesDone =>
        /\ Len(stock_timeseries) = CURRENT_YEAR - MinYear(cement_data) + 1
        /\ \A i \in 1..Len(stock_timeseries) :
              LET row == stock_timeseries[i]
                  past == {b \in YearsOf(inflows) : b <= row.year}
              IN  /\ row.year = MinYear(cement_data) + i - 1
                  /\ \A t \in TypeSet :
                        row[t] =
                           SetSum([b \in past |->
                                      RMul(RowOf(inflows, b)[InflowCol(t)],
                                           survival_function(row.year - b, LIFETIMES[t]))],
                                  past)
                  /\ row.total = SetSum(row, TypeSet)

\* a time series with a row that has a cohort before it and a cohort after it
C7_Witness ==
    /\ TimeseriesDone
    /\ \E i \in 1..Len(stock_timeseries) :
          /\ \E b \in YearsOf(inflows) : b > stock_timeseries[i].year
          /\ \E b \in YearsOf(inflows) : b < stock_timeseries[i].year
          /\ RLt(R(0), stock_timeseries[i].total)

InflowsDone ==
    mode = "topdown" /\ pc \in {"stock", "timeseries", "plot", "save", "done"}

FractionSum(row) == SetSum([t \in TypeSet |-> row[FractionCol(t)]], TypeSet)

\* C8: calculate_concrete_inflows keeps exactly the years present in both
\* frames; for each it sets concrete_to_buildings_mt = production_mt x
\* CONCRETE_TO_CEMENT_RATIO x BUILDING_FRACTION and <type>_concrete_mt =
\* concrete_to_buildings_mt x <type>_fraction, so that when the four
\* fractions of a year sum to 1 its four inflows sum to
\* concrete_to_buildings_mt.
C8_Inflows ==
    InflowsDone =>
        /\ YearsOf(inflows) = YearsOf(cement_data) \cap YearsOf(spending_data)
        /\ Len(inflows) = Cardinality(YearsOf(inflows))
        /\ \A i \in 1..Len(inflows) :
              LET row == inflows[i]
                  c == RowOf(cement_data, row.year)
                  sp == RowOf(spending_data, row.year)
              IN  /\ row.concrete_to_buildings_mt =
                        RMul(RMul(R(c.production_mt), Rat(55, 10)), Rat(55, 100))
                  /\ \A t \in TypeSet :
                        row[InflowCol(t)] =
                           RMul(row.concrete_to_buildings_mt, sp[FractionCol(t)])
                  /\ FractionSum(sp) = R(1) =>
                        SetSum([t \in TypeSet |-> row[InflowCol(t)]], TypeSet)
                           = row.concrete_to_buildings_mt

\* inflows of a year whose fractions sum to 1, with a cement year and a
\* spending year left out
C8_Witness ==
    /\ InflowsDone
    /\ \E i \in 1..Len(inflows) : FractionSum(inflows[i]) = R(1)
    /\ YearsOf(cement_data) \ YearsOf(inflows) # {}
    /\ YearsOf(spending_data) \ YearsOf(inflows) # {}

\* C9: main runs its stages in the fixed order load, survival matrix,
\* inflows, current stock, time series, plot, save: the stages entered so
\* far are always a prefix of that order (none is skipped, repeated or
\* entered early), main is at the stage after the last one it finished, and
\* a run that returns has entered each stage exactly once.
C9_LinearPipeline ==
    mode = "topdown" =>
        /\ Len(trace) <= Len(StageOrder)
        /\ trace = SubSeq(StageOrder, 1, Len(trace))
        /\ pc \notin {"done", "error"} =>
              Len(trace) < Len(StageOrder) /\ pc = StageOrder[Len(trace) + 1]
        /\ pc = "done" => trace = StageOrder
        /\ pc = "done" =>
              files = {"concrete_stock_analysis.png", "concrete_stock_results.csv"}

\* a run of main that returned
C9_Witness == mode = "topdown" /\ pc = "done" /\ Len(stock_timeseries) > 0

SingleProxyOps ==
    {"allocate_by_population", "allocate_by_gdp", "allocate_by_floor_area",
     "allocate_by_construction_spending", "allocate_by_nighttime_lights"}

\* the proxy a single-proxy call allocates by
ProxyOf(c) ==
    IF c.op = "allocate_by_construction_spending"
    THEN [u \in Units |->
            SetSum([t \in 1..Len(c.args[1]) |-> c.args[1][t][u]], 1..Len(c.args[1]))]
    ELSE c.args[1]

\* C2: each single-proxy allocator (population, GDP, floor area, cumulative
\* construction spending, nighttime lights) gives every unit national_stock
\* x proxy / sum of the proxy, so the amounts sum to national_stock whenever
\* the sum of the proxy is not zero.
C2_SingleProxy ==
    (mode = "allocator" /\ call.op \in SingleProxyOps) =>
        /\ call.exc = "none"
        /\ \A u \in Units :
              call.ret[u] =
                 RMul(alloc.national_stock,
                      RDiv(ProxyOf(call)[u], SetSum(ProxyOf(call), Units)))
        /\ SetSum(ProxyOf(call), Units) # R(0) =>
              SetSum(call.ret, Units) = alloc.national_stock

\* an allocation of a non-zero stock by cumulative spending that gives the
\* units different amounts
C2_Witness ==
    /\ mode = "allocator" /\ call.op = "allocate_by_construction_spending"
    /\ alloc.national_stock # R(0)
    /\ RLt(R(0), call.ret[1]) /\ RLt(call.ret[1], call.ret[2])
    /\ call.args[1][1] # call.args[1][2]

\* abs(sum(weights.values()) - 1.0) < 0.001
PassesCheck(weights) ==
    RLt(RAbs(RSub(SetSum(weights, DOMAIN weights), R(1))), Rat(1, 1000))

\* the weighted proxies that are passed to allocate_hybrid
UsedProxies(c) == DOMAIN c.args[1] \cap DOMAIN c.args[2]

\* C3 as stated: for weights that pass the check, the amounts allocate_hybrid
\* returns sum to national_stock whatever set of proxy series is passed.
C3_WhateverProxies ==
    (mode = "allocator" /\ call.op = "allocate_hybrid" /\ PassesCheck(call.args[1])) =>
        /\ call.exc = "none"
        /\ SetSum(call.ret, Units) = alloc.national_stock

\* C3 amended: for weights that pass the check, allocate_hybrid raises
\* IndexError when no proxy series is passed and returns otherwise; the
\* amounts it returns sum to national_stock x the sum of the weights whose
\* proxy series is passed, provided each of those series has a non-zero sum.
\* That is national_stock only if every weighted proxy is passed and the
\* weights sum to exactly 1.
C3_PassedWeights ==
    (mode = "allocator" /\ call.op = "allocate_hybrid" /\ PassesCheck(call.args[1])) =>
        /\ DOMAIN call.args[2] = {} => call.exc = "IndexError"
        /\ DOMAIN call.args[2] # {} =>
              /\ call.exc = "none"
              /\ (\A k \in UsedProxies(call) : SetSum(call.args[2][k], Units) # R(0)) =>
                    SetSum(call.ret, Units) =
                       RMul(alloc.national_stock,
                            SetSum(call.args[1], UsedProxies(call)))

\* weights that pass the check, one of them for a proxy that is not passed:
\* the amounts do not sum to the national stock
C3_Witness ==
    /\ mode = "allocator" /\ call.op = "allocate_hybrid" /\ call.exc = "none"
    /\ PassesCheck(call.args[1])
    /\ UsedProxies(call) # DOMAIN call.args[1]
    /\ UsedProxies(call) # {}
    /\ \A k \in UsedProxies(call) : SetSum(call.args[2][k], Units) # R(0)
    /\ alloc.national_stock # R(0)
    /\ SetSum(call.ret, Units) # alloc.national_stock

\* C4: allocate_hybrid called with weights whose sum differs from 1.0 by
\* 0.001 or more fails on its assertion, with the message 'Weights must sum
\* to 1.0', before anything is allocated: it returns no result.
C4_WeightAssertion ==
    (mode = "allocator" /\ call.op = "allocate_hybrid" /\ ~PassesCheck(call.args[1])) =>
        /\ call.exc = "AssertionError: Weights must sum to 1.0"
        /\ call.ret = <<>>

\* weights that sum to 0.999, passed without any proxy series: the assertion
\* fails before the proxies are looked at
C4_Witness ==
    /\ mode = "allocator" /\ call.op = "allocate_hybrid"
    /\ call.exc = "AssertionError: Weights must sum to 1.0"
    /\ SetSum(call.args[1], DOMAIN call.args[1]) = Rat(999, 1000)
    /\ DOMAIN call.args[2] = {}

ClaimedMethods == {"population", "gdp", "floor_area", "hybrid"}

NationalCall ==
    mode = "national" /\ call.op = "allocate_national_stock"
        /\ call.args[3] \in ClaimedMethods

\* the columns '<type>_stock' of the building types a dictionary can have
TypeStockCols == {StockCol(k) : k \in Range(StockKeys) \ {"total"}}

\* C5 as stated: for each of the methods population, gdp, floor_area and
\* hybrid, every building type of national_stocks other than 'total' gets a
\* column '<type>_stock' that sums over the regions to the type's national
\* stock; 'total' is not allocated; each region's total_stock is the sum of
\* its '<type>_stock' columns.
C5_EveryType ==
    NationalCall =>
        /\ call.exc = "none"
        /\ \A k \in DOMAIN call.args[1] \ {"total"} :
              /\ \A u \in Units : StockCol(k) \in DOMAIN call.ret[u]
              /\ SetSum([u \in Units |-> call.ret[u][StockCol(k)]], Units)
                    = call.args[1][k]
        /\ \A u \in Units :
              call.ret[u].total_stock =
                 SetSum(call.ret[u], DOMAIN call.ret[u] \cap TypeStockCols)

\* the building types allocate_national_stock allocates under a method
AllocatedTypes(stock_dict, method) ==
    IF method = "hybrid" THEN DOMAIN stock_dict \cap TypeSet
    ELSE DOMAIN stock_dict \ {"total"}

\* the proxies the column of a building type is allocated by
ProxiesFor(frame, k, method) ==
    LET col(name) == [u \in Units |-> frame[u][name]]
        urban == [u \in Units |-> RMul(frame[u].urbanization, frame[u].population)]
    IN  IF method # "hybrid" THEN {col(method)}
        ELSE IF k = "residential" THEN {col("population"), col("floor_area")}
        ELSE IF k = "commercial" THEN {col("gdp"), urban}
        ELSE IF k = "institutional" THEN {col("population")}
        ELSE {col("gdp")}

\* C5 amended: under population, gdp and floor_area every building type of
\* national_stocks other than 'total' gets a column '<type>_stock', under
\* hybrid only residential, commercial, institutional and industrial do (any
\* other type gets no column).  A column sums over the regions to the type's
\* national stock if each proxy it is allocated by has a non-zero sum, and is
\* NaN otherwise.  'total' is not allocated; each region's total_stock is
\* the sum of its '<type>_stock' columns that are not NaN.
C5_AllocatedTypes ==
    NationalCall =>
        /\ call.exc = "none"
        /\ \A u \in Units :
              DOMAIN call.ret[u] \cap TypeStockCols =
                 {StockCol(k) : k \in AllocatedTypes(call.args[1], call.args[3])}
        /\ \A k \in AllocatedTypes(call.args[1], call.args[3]) :
              IF \A p \in ProxiesFor(call.args[2], k, call.args[3]) :
                    SetSum(p, Units) # R(0)
              THEN SetSum([u \in Units |-> call.ret[u][StockCol(k)]], Units)
                      = call.args[1][k]
              ELSE \A u \in Units : IsNaN(call.ret[u][StockCol(k)])
        /\ \A u \in Units :
              call.ret[u].total_stock =
                 SetSum(call.ret[u],
                        {c \in DOMAIN call.ret[u] \cap TypeStockCols :
                            ~IsNaN(call.ret[u][c])})

\* a hybrid allocation of the four known types, 'total' and a fifth type,
\* over proxies that all have non-zero sums
C5_Witness ==
    /\ NationalCall /\ call.args[3] = "hybrid" /\ call.exc = "none"
    /\ DOMAIN call.args[1] = Range(StockKeys)
    /\ \A k \in TypeSet : \A p \in ProxiesFor(call.args[2], k, "hybrid") :
          SetSum(p, Units) # R(0)
    /\ \A u \in Units : "infrastructure_stock" \notin DOMAIN call.ret[u]
    /\ \E u \in Units : RLt(R(0), call.ret[u].total_stock)

\* C6: survival_function returns a value in [0, 1], and for two ages
\* age1 < age2 and the same lifetime parameters the value at age2 is not
\* above the value at age1.
C6_Survival ==
    (mode = "survival" /\ probe # NoProbe) =>
        /\ probe.age1 < probe.age2
        /\ RLe(R(0), probe.s1) /\ RLe(probe.s1, R(1))
        /\ RLe(R(0), probe.s2) /\ RLe(probe.s2, R(1))
        /\ RLe(probe.s2, probe.s1)

\* two ages of a building type between which the survival goes down, staying
\* strictly between 0 and 1
C6_Witness ==
    /\ mode = "survival" /\ probe # NoProbe
    /\ probe.params = LIFETIMES["residential"]
    /\ RLt(R(0), probe.s2) /\ RLt(probe.s2, probe.s1) /\ RLt(probe.s1, R(1))

\* the call c made again on the allocator a and the caller's data
CallAgain(c, a, stock_dict, frame) ==
    CASE c.op = "allocate_by_population" -> allocate_by_population(a, c.args[1])
      [] c.op = "allocate_by_gdp" -> allocate_by_gdp(a, c.args[1])
      [] c.op = "allocate_by_floor_area" -> allocate_by_floor_area(a, c.args[1])
      [] c.op = "allocate_by_construction_spending" ->
            allocate_by_construction_spending(a, c.args[1])
      [] c.op = "allocate_by_nighttime_lights" ->
            allocate_by_nighttime_lights(a, c.args[1])
      [] c.op = "allocate_hybrid" -> allocate_hybrid(a, c.args[1], c.args[2])
      [] c.op = "allocate_with_building_types" ->
            allocate_with_building_types(a, c.args[1], c.args[2])
      [] c.op = "allocate_national_stock" ->
            allocate_national_stock(stock_dict, frame, c.args[3])
      [] c.op = "calculate_regional_characteristics" ->
            [exc |-> "none", ret |-> calculate_regional_characteristics(frame).ret]

\* a step that runs calculate_concrete_inflows leaves cement_data and
\* spending_data as they were; a step that calls a method of
\* SpatialAllocator, allocate_national_stock or
\* calculate_regional_characteristics leaves the allocator's fields,
\* proxy_data and national_stocks as they were; the same call made again
\* after the step gives the same result
C10_Step ==
    /\ (mode = "topdown" /\ pc = "inflows" /\ pc' # pc) =>
          /\ cement_data' = cement_data
          /\ spending_data' = spending_data
          /\ pc' # "error" =>
                calculate_concrete_inflows(cement_data', spending_data').ret = inflows'
    /\ call' # call =>
          /\ alloc' = alloc
          /\ proxy_data' = proxy_data
          /\ national_stocks' = national_stocks
          /\ \E again \in {CallAgain(call', alloc', national_stocks', proxy_data')} :
                again.exc = call'.exc /\ again.ret = call'.ret

\* C10: the functions keep no state between calls and change none of their
\* inputs: calculate_concrete_inflows leaves cement_data and spending_data
\* unchanged, allocate_national_stock and calculate_regional_characteristics
\* leave proxy_data and national_stocks unchanged, no method of
\* SpatialAllocator changes national_stock, spatial_units or n_units, and a
\* call repeated with the same inputs gives the same result.
C10_Stateless == [][C10_Step]_vars

\* allocate_national_stock has returned a frame, and the caller's
\* national_stocks and proxy_data are the ones it was called with
C10_Witness ==
    /\ mode = "national" /\ call.op = "allocate_national_stock" /\ call.exc = "none"
    /\ call.args[1] = national_stocks /\ call.args[2] = proxy_data
    /\ \E u \in Units : "gdp_per_capita" \notin DOMAIN proxy_data[u]
    /\ \E u \in Units : RLt(R(0), call.ret[u].total_stock)

(***************************************************************************)
(* The data scripts                                                        *)
(***************************************************************************)
\* the requests census_geocode has sent
NumRequests == Cardinality({i \in 1..Len(geocode.log) : geocode.log[i] = "request"})

\* the passes through the loop of scrape_multiple_pdfs
ScrapeLog == SelectSeq(aca.log, LAMBDA e : e.op = "scrape")

\* the files written by main
WriteLog == SelectSeq(aca.log, LAMBDA e : e.op = "write")

\* scrape_multiple_pdfs tries the k-th path once, and a failure is one line
\* on stderr
ScrapedOnce ==
    /\ Len(ScrapeLog) <= Len(aca.args.pdfs)
    /\ \A k \in 1..Len(ScrapeLog) : ScrapeLog[k].arg = aca.args.pdfs[k]
    /\ Len(aca.stderr) + Len(aca.results) = Len(ScrapeLog)
    /\ Len(aca.stderr) =
          Cardinality({k \in 1..Len(ScrapeLog) : ScrapeLog[k].arg \notin aca.readable})

\* clean_csv_file is called once for a file; a call saves a file, or prints
\* an error, or raises, and a call that raises is the last one
CleanedOnce ==
    /\ permit.csv_files = <<>> => Len(permit.calls) <= 1
    /\ permit.csv_files # <<>> =>
          /\ Len(permit.calls) <= Len(permit.csv_files)
          /\ \A k \in 1..Len(permit.calls) : permit.calls[k].file = permit.csv_files[k]
    /\ \A k \in 1..Len(permit.calls) :
          LET out == permit.calls[k].out IN
          /\ Cardinality({f \in {"raised", "error", "saved"} : out[f]}) = 1
          /\ out.raised => k = Len(permit.calls) /\ permit.pc \in {"raised", "returned"}

\* C11 as stated: no script tries a failed operation again; census_geocode
\* sends no request after a request that failed, scrape_multiple_pdfs tries
\* a PDF once and clean_csv_file is called once for a CSV file.
C11_NoRetry ==
    /\ geocode.failed >= 1 => NumRequests = 1
    /\ ScrapedOnce
    /\ CleanedOnce

\* C11 amended: scrape_multiple_pdfs and the callers of clean_csv_file try
\* an item once, a failure being one error message (or, for the mkdir of
\* clean_csv_file, an exception that ends the run); census_geocode does try
\* again: after an attempt that raised it sends the request once more for as
\* long as fewer than retries attempts have raised.
C11_RetryOnlyInGeocode ==
    /\ ScrapedOnce
    /\ CleanedOnce
    /\ NumRequests <= geocode.retries
    /\ NumRequests - geocode.failed \in {0, 1}
    /\ geocode.pc \in {"returned", "unpacked", "TypeError"} /\ NumRequests = geocode.failed
          => NumRequests = geocode.retries

\* census_geocode has sent a request again after an attempt that raised
C11_Witness ==
    /\ mode = "geocoder" /\ geocode.pc = "returned"
    /\ geocode.failed >= 1 /\ NumRequests >= 2

\* the output files the flags of the command line ask for
AskedFiles ==
    LET none == ~aca.argv.csv /\ ~aca.argv.json /\ ~aca.argv.both IN
    (IF aca.argv.csv \/ aca.argv.both \/ none
     THEN <<[op |-> "write", arg |-> "aca_data.csv"]>> ELSE <<>>)
        \o (IF aca.argv.json \/ aca.argv.both \/ none
            THEN <<[op |-> "write", arg |-> "aca_data.json"]>> ELSE <<>>)

\* C12: a run of main that ends has scraped every PDF and then written the
\* files its flags ask for: both files when none of --csv, --json, --both is
\* given or --both is given, the CSV for --csv, the JSON for --json, and the
\* CSV before the JSON.
C12_OutputFlags ==
    mode = "scraper" /\ aca.pc = "done" =>
        /\ aca.log = ScrapeLog \o WriteLog
        /\ Len(ScrapeLog) = Len(aca.args.pdfs)
        /\ WriteLog = AskedFiles
        /\ aca.files = {AskedFiles[k].arg : k \in 1..Len(AskedFiles)}

\* main has ended a run with --csv and --both given and a PDF scraped
C12_Witness ==
    /\ mode = "scraper" /\ aca.pc = "done"
    /\ aca.argv.csv /\ ~aca.argv.json /\ aca.argv.both
    /\ Len(aca.results) >= 1
    /\ aca.files = {"aca_data.csv", "aca_data.json"}

\* C13: with no PDF argument and no file ACA*.pdf in the script directory
\* main exits with status 1, has scraped nothing and has written no file.
C13_NoPdfExit ==
    /\ mode = "scraper" /\ aca.pc \notin {"start", "detect"}
    /\ aca.argv.pdfs = <<>> /\ Glob(aca.present) = <<>>
    => /\ aca.pc = "exit"
       /\ aca.status = 1
       /\ aca.log = <<>>
       /\ aca.files = {}

\* main has exited without a PDF to scrape
C13_Witness ==
    /\ mode = "scraper" /\ aca.pc = "exit"
    /\ aca.argv.pdfs = <<>> /\ aca.present = {}
    /\ aca.status = 1

\* the index labels of the rows of a frame
IndexLabels(rows) == [i \in 1..Len(rows) |-> rows[i].index]

\* the index labels of the rows of a raw file that come after the first n
\* rows and are not empty
DataRowsAfter(rows, n) ==
    SelectSeq([i \in 1..Len(rows) |-> i - 1],
              LAMBDA l : l >= n /\ \E c \in 1..Len(rows[l + 1]) : rows[l + 1][c] # "nan")

\* C14: clean_csv_file removes the first 3 rows of the raw file and no more:
\* the rows it saves are the rows of the input from the 4th on that are not
\* empty.
C14_FirstThreeRows ==
    \A k \in 1..Len(permit.calls) :
        permit.calls[k].out.saved =>
            IndexLabels(permit.calls[k].out.written.rows)
                = DataRowsAfter(permit.calls[k].file.rows, 3)

\* clean_csv_file has saved a file of seven full rows: the 4th, 5th and 6th
\* row are not in the output
C14_Witness ==
    /\ mode = "cleaner" /\ permit.pc = "returned"
    /\ \E k \in 1..Len(permit.calls) :
          /\ permit.calls[k].out.saved
          /\ permit.calls[k].file.rows = [i \in 1..7 |-> <<"a", "b">>]
          /\ IndexLabels(permit.calls[k].out.written.rows) = <<6>>

\* C15: clean_csv_file never raises and writes nothing when it fails: for a
\* path without a file it prints an error and makes no output, an exception
\* is caught and reported, and so clean_all_csv_in_directory calls it once
\* for every CSV file it found.
C15_NeverRaises ==
    /\ \A k \in 1..Len(permit.calls) :
          LET c == permit.calls[k] IN
          /\ ~c.out.raised
          /\ ~c.file.exists => c.out.error /\ ~c.out.saved /\ ~c.out.mkdir
          /\ c.out.error => ~c.out.saved
    /\ mode = "cleaner" /\ permit.pc \in {"processed", "raised"} =>
          Len(permit.calls) = Len(permit.csv_files)

\* clean_all_csv_in_directory has ended on the first of two files, with an
\* exception of the mkdir of the output directory
C15_Witness ==
    /\ mode = "cleaner" /\ permit.pc = "raised"
    /\ Len(permit.csv_files) = 2 /\ Len(permit.calls) = 1
    /\ permit.calls[1].out.raised

\* the rows of an output file of the mine analysis, none if it is not written
Written(name) == IF name \in MineFiles THEN Range(MineFile(name)) ELSE {}

\* the rows of active_mines.csv are mines of both datasets whose status is
\* not excluded, and the rows of excluded_inactive_mines.csv are mines of
\* both datasets whose status is excluded
FilteredOutputs ==
    /\ \A r \in Written("active_mines.csv") :
          /\ \E a \in Range(mines.mines_address) : a.id = r.id
          /\ \E st \in Range(mines.mines_status) : st.id = r.id /\ st.status = r.status
          /\ r.status \notin exclude_statuses
    /\ \A r \in Written("excluded_inactive_mines.csv") :
          /\ \E a \in Range(mines.mines_address) : a.id = r.id
          /\ \E st \in Range(mines.mines_status) : st.id = r.id /\ st.status = r.status
          /\ r.status \in exclude_statuses

\* the Mine IDs that are in both output files
InBothOutputs ==
    {r.id : r \in Written("active_mines.csv")}
        \cap {r.id : r \in Written("excluded_inactive_mines.csv")}

\* C16 as stated: the active mines are in both datasets with a status that is
\* not excluded, the excluded mines have an excluded status, and no Mine ID
\* is in both output files.
C16_DisjointOutputs ==
    /\ FilteredOutputs
    /\ InBothOutputs = {}

\* C16 amended: the rows of the two output files are filtered by status as
\* stated, so no row is in both files; a Mine ID is in both files exactly
\* when the status data holds it with an excluded and with another status
\* (and the address data holds it); without an active mine the script ends
\* in a ZeroDivisionError and writes no file.
C16_FilteredByStatus ==
    /\ FilteredOutputs
    /\ Written("active_mines.csv") \cap Written("excluded_inactive_mines.csv") = {}
    /\ mode = "mines" /\ mines.pc = "complete" =>
          InBothOutputs =
              {id \in {a.id : a \in Range(mines.mines_address)} :
                  /\ \E st \in Range(mines.mines_status) :
                        st.id = id /\ st.status \in exclude_statuses
                  /\ \E st \in Range(mines.mines_status) :
                        st.id = id /\ st.status \notin exclude_statuses}
    /\ mines.pc = "ZeroDivisionError" => mines.files = <<>>
    /\ mines.files # <<>> => mines.active_mines # <<>>

\* the script has ended with a Mine ID in both output files
C16_Witness ==
    /\ mode = "mines" /\ mines.pc = "complete"
    /\ "M1" \in InBothOutputs

\* census_geocode has returned to its caller
GeocodeReturned == mode = "geocoder" /\ geocode.pc \in {"returned", "unpacked", "TypeError"}

\* the log of a call: a request, then a sleep and a request for each attempt
\* after the first
RequestsAndSleeps ==
    \A i \in 1..Len(geocode.log) :
        geocode.log[i] = IF i % 2 = 1 THEN "request" ELSE "sleep"

\* the pair an attempt that completed returns: the y and x of the first
\* match, or (None, None) without a match
FirstMatch(response) ==
    IF Len(response.matches) > 0
    THEN <<response.matches[1].coordinates.y, response.matches[1].coordinates.x>>
    ELSE <<"None", "None">>

\* C17: census_geocode(address, retries) with retries >= 1 sends at most
\* retries requests; it returns after the first request that completes
\* without an exception, with the (lat, lon) of the first match or (None,
\* None); it sends another request only after an exception, sleeping between
\* a failed attempt and the next one but not after the last; it returns
\* (None, None) once retries attempts have raised.
C17_BoundedRetries ==
    mode = "geocoder" /\ geocode.retries >= 1 =>
        /\ NumRequests <= geocode.retries
        /\ RequestsAndSleeps
        /\ NumRequests - geocode.failed \in {0, 1}
        /\ NumRequests > geocode.failed => GeocodeReturned
        /\ GeocodeReturned =>
              /\ geocode.log[Len(geocode.log)] = "request"
              /\ IF NumRequests > geocode.failed
                 THEN geocode.response.kind = "json"
                      /\ geocode.ret = FirstMatch(geocode.response)
                 ELSE NumRequests = geocode.retries
                      /\ geocode.ret = <<"None", "None">>

\* census_geocode has returned the coordinates of the first match at the
\* last of three attempts, after two attempts that raised
C17_Witness ==
    /\ mode = "geocoder" /\ geocode.pc = "returned"
    /\ geocode.retries = 3 /\ geocode.failed = 2 /\ NumRequests = 3
    /\ geocode.ret = <<"y1", "x1">>

\* C18: census_geocode returns a pair for every value of retries, 0
\* included, so that lat, lon = census_geocode(addr) does not fail.
C18_AlwaysPair ==
    /\ GeocodeReturned => Len(geocode.ret) = 2
    /\ geocode.pc # "TypeError"

\* census_geocode(address, retries=0) has returned None and the unpacking
\* of its value has raised
C18_Witness ==
    /\ mode = "geocoder" /\ geocode.pc = "TypeError"
    /\ geocode.retries = 0 /\ geocode.ret = <<>> /\ geocode.log = <<>>

=============================================================================
